---- MODULE Spec2Model ----
(***************************************************************************)
(* A model of the NACHA/ACH validation engine of nachaParser.ts.           *)
(*                                                                         *)
(* A text is a sequence of one-character strings.  parseAch is the state   *)
(* machine of its for-loop: one action per kind of line (the whole loop    *)
(* iteration for a line of that kind), followed by the final checks.       *)
(* JavaScript numbers are modelled by integers, BigInt values by canonical *)
(* sequences of decimal digits with exact addition.                        *)
(***************************************************************************)
EXTENDS Integers, Sequences, FiniteSets, TLC

(***************************************************************************)
(* Characters and the JavaScript string functions the parser uses.         *)
(***************************************************************************)
DigitChars == <<"0", "1", "2", "3", "4", "5", "6", "7", "8", "9">>

DigitSet == {DigitChars[k] : k \in 1..10}

IsDigit(c) == c \in DigitSet

DigitVal(c) == CHOOSE n \in 0..9 : DigitChars[n + 1] = c

DigitChar(n) == DigitChars[n + 1]

IsWhitespace(c) == c \in {" ", "\t", "\r", "\n"}

Min(a, b) == IF a < b THEN a ELSE b

Max(a, b) == IF a > b THEN a ELSE b

\* str.substring(start, end) for 0 <= start <= end: both ends are clamped
\* to the length of the string.
Substring(str, start, end) ==
  LET s == Min(start, Len(str))
      e == Min(end, Len(str))
  IN  IF s >= e THEN << >> ELSE SubSeq(str, s + 1, e)

\* str.charAt(k): the empty string when k is out of range.
CharAt(str, k) == Substring(str, k, k + 1)

\* str.trim()
Trim(str) ==
  LET nonWs == {k \in 1..Len(str) : ~IsWhitespace(str[k])}
  IN  IF nonWs = {} THEN << >>
      ELSE LET lo == CHOOSE k \in nonWs : \A m \in nonWs : k <= m
               hi == CHOOSE k \in nonWs : \A m \in nonWs : k >= m
           IN  SubSeq(str, lo, hi)

\* /^\d+$/.test(str)
isNumeric(str) == Len(str) > 0 /\ \A k \in 1..Len(str) : IsDigit(str[k])

\* /^\d{n}$/.test(str)
IsDigitsN(str, n) == Len(str) = n /\ \A k \in 1..Len(str) : IsDigit(str[k])

Repeat(c, n) == [k \in 1..n |-> c]

\* str.padStart(n, c) and str.padEnd(n, c)
PadStart(str, n, c) == IF Len(str) >= n THEN str ELSE Repeat(c, n - Len(str)) \o str

PadEnd(str, n, c) == IF Len(str) >= n THEN str ELSE str \o Repeat(c, n - Len(str))

RECURSIVE DigitsValue(_)
\* The value of a sequence of decimal digits.
DigitsValue(ds) ==
  IF Len(ds) = 0 THEN 0
  ELSE 10 * DigitsValue(SubSeq(ds, 1, Len(ds) - 1)) + DigitVal(ds[Len(ds)])

\* parseInt(str, 10): leading whitespace is skipped, an optional sign is
\* read, then the longest run of digits; NaN when that run is empty.
parseInt(str) ==
  LET nonWs == {k \in 1..Len(str) : ~IsWhitespace(str[k])}
      first == IF nonWs = {} THEN Len(str) + 1
               ELSE CHOOSE k \in nonWs : \A m \in nonWs : k <= m
      signed == first <= Len(str) /\ str[first] \in {"+", "-"}
      from == IF signed THEN first + 1 ELSE first
      stops == {k \in from..Len(str) : ~IsDigit(str[k])}
      upto == IF stops = {} THEN Len(str)
              ELSE (CHOOSE k \in stops : \A m \in stops : k <= m) - 1
      mag == DigitsValue(SubSeq(str, from, upto))
  IN  IF upto < from THEN [nan |-> TRUE, val |-> 0]
      ELSE [nan |-> FALSE,
            val |-> IF signed /\ str[first] = "-" THEN 0 - mag ELSE mag]

isNaN(x) == x.nan

\* x !== n for a parsed number x and a number n that is not NaN.
NumberDiffers(x, n) == x.nan \/ x.val # n

RECURSIVE NatToString(_)
\* n.toString() for a natural number.
NatToString(n) ==
  IF n < 10 THEN <<DigitChar(n)>>
  ELSE NatToString(n \div 10) \o <<DigitChar(n % 10)>>

\* n.toString() for an integer.
IntToString(n) == IF n < 0 THEN <<"-">> \o NatToString(0 - n) ELSE NatToString(n)

\* `${x}` for a parsed number.
NumberToString(x) == IF x.nan THEN <<"N", "a", "N">> ELSE IntToString(x.val)

\* (cents / 100).toFixed(2) for an integer number of cents.
CentsToFixed2(cents) ==
  LET a == IF cents < 0 THEN 0 - cents ELSE cents
  IN  (IF cents < 0 THEN <<"-">> ELSE << >>)
        \o NatToString(a \div 100) \o <<".">>
        \o PadStart(NatToString(a % 100), 2, "0")

\* (x / 100).toFixed(2) for a parsed number.
NumberToFixed2(x) == IF x.nan THEN <<"N", "a", "N">> ELSE CentsToFixed2(x.val)

(***************************************************************************)
(* BigInt: a canonical sequence of decimal digits (no leading zero except  *)
(* for zero itself), with exact addition.                                  *)
(***************************************************************************)
StripLeadingZeros(ds) ==
  LET nz == {k \in 1..Len(ds) : ds[k] # "0"}
  IN  IF nz = {} THEN <<"0">>
      ELSE SubSeq(ds, CHOOSE k \in nz : \A m \in nz : k <= m, Len(ds))

\* The literals BigInt(str) accepts with a radix prefix: 0x, 0o, 0b.
IsRadixLiteral(t) ==
  /\ Len(t) >= 3
  /\ t[1] = "0"
  /\ LET digitsOf == CASE t[2] \in {"x", "X"} ->
                           DigitSet \cup {"a", "b", "c", "d", "e", "f", "A", "B", "C", "D", "E", "F"}
                        [] t[2] \in {"o", "O"} -> {"0", "1", "2", "3", "4", "5", "6", "7"}
                        [] t[2] \in {"b", "B"} -> {"0", "1"}
                        [] OTHER -> {}
     IN  \A k \in 3..Len(t) : t[k] \in digitsOf

\* BigInt(str) throws a SyntaxError unless str, with the whitespace around
\* it removed, is empty, a decimal integer with an optional sign, or a
\* literal with a radix prefix.
BigIntThrows(str) ==
  LET t == Trim(str)
      unsigned == IF t # << >> /\ t[1] \in {"+", "-"} THEN SubSeq(t, 2, Len(t)) ELSE t
  IN  /\ t # << >>
      /\ ~(unsigned # << >> /\ \A k \in 1..Len(unsigned) : unsigned[k] \in DigitSet)
      /\ ~IsRadixLiteral(t)

\* BigInt(str) for a string of digits.
BigInt(str) == StripLeadingZeros(Trim(str))

BigZero == <<"0">>

RECURSIVE BigAddDigits(_, _, _)
\* Schoolbook addition of two digit sequences of equal length, carry c.
BigAddDigits(a, b, c) ==
  IF Len(a) = 0 THEN (IF c = 0 THEN << >> ELSE <<DigitChar(c)>>)
  ELSE LET s == DigitVal(a[Len(a)]) + DigitVal(b[Len(b)]) + c
       IN  BigAddDigits(SubSeq(a, 1, Len(a) - 1), SubSeq(b, 1, Len(b) - 1), s \div 10)
             \o <<DigitChar(s % 10)>>

\* a + b on BigInt values.
BigAdd(a, b) ==
  LET n == Max(Len(a), Len(b))
  IN  StripLeadingZeros(BigAddDigits(PadStart(a, n, "0"), PadStart(b, n, "0"), 0))


(***************************************************************************)
(* The state of one call of parseAch.                                      *)
(***************************************************************************)
VARIABLES lines, i, pc, diags,
          seenFileHeader, openBatch, batchCount, totalEntryCount,
          totalDebitAmount, totalCreditAmount, totalEntryHash,
          currentBatchHeaderLine, currentBatchEntryCount,
          currentBatchDebitAmount, currentBatchCreditAmount,
          currentBatchEntryHash, currentBatchServiceClass, currentBatchId,
          currentBatchOdfi, currentBatchNumber, currentBatchSec,
          summary, query, answer, cursor

fileVars == <<seenFileHeader, batchCount, totalEntryCount, totalDebitAmount,
              totalCreditAmount, totalEntryHash>>

batchVars == <<openBatch, currentBatchHeaderLine, currentBatchEntryCount,
               currentBatchDebitAmount, currentBatchCreditAmount,
               currentBatchEntryHash, currentBatchServiceClass, currentBatchId,
               currentBatchOdfi, currentBatchNumber, currentBatchSec>>

lookupVars == <<query, answer, cursor>>

vars == <<lines, i, pc, diags, fileVars, batchVars, summary, lookupVars>>

RecordLength == 94

recordTypes == {<<"1">>, <<"5">>, <<"6">>, <<"7">>, <<"8">>, <<"9">>}

isPaddingRow(line) ==
  Len(line) = RecordLength /\ \A k \in 1..Len(line) : line[k] = "9"

\* addDiag pushes one record; the message is the fixed text of the template
\* and args the interpolated values, in order.
addDiag(lineIdx, start, end, message, args, severity) ==
  [line |-> lineIdx, start |-> start, end |-> end, message |-> message,
   args |-> args, severity |-> severity]

\* The diagnostic d when cond holds, nothing otherwise.
When(cond, d) == IF cond THEN <<d>> ELSE << >>

getField(line, start, end) == Substring(line, start, end)

\* A routing check that tests the length only.
validateRouting_LengthOnly(routing) == Len(routing) = 8

validateRouting(routing) == Len(routing) = 8 /\ isNumeric(routing)

weights == <<3, 7, 1, 3, 7, 1, 3, 7>>

RECURSIVE WeightedSum(_, _)
\* The sum of the loop of calculateCheckDigit after n iterations.
WeightedSum(routing8, n) ==
  IF n = 0 THEN 0
  ELSE WeightedSum(routing8, n - 1) + parseInt(<<routing8[n]>>).val * weights[n]

\* A check digit without the final reduction: 10 when the sum ends in 0.
calculateCheckDigit_NoFinalMod(routing8) == 10 - (WeightedSum(routing8, 8) % 10)

calculateCheckDigit(routing8) == (10 - (WeightedSum(routing8, 8) % 10)) % 10

\* A hash tail that is not reduced modulo 10^10.
HashTail_NoModulo(hash) == PadStart(hash, 10, "0")

\* (hash % 10000000000n).toString().padStart(10, '0')
HashTail(hash) ==
  PadStart(StripLeadingZeros(Substring(hash, Max(0, Len(hash) - 10), Len(hash))), 10, "0")

\* A last index that takes a line of spaces for a record.
lastNonEmptyIndex_Untrimmed(ls) ==
  LET nonEmpty == {k \in 0..(Len(ls) - 1) : Len(ls[k + 1]) > 0}
  IN  IF nonEmpty = {} THEN 0 - 1
      ELSE CHOOSE k \in nonEmpty : \A m \in nonEmpty : k >= m

lastNonEmptyIndex(ls) ==
  LET nonEmpty == {k \in 0..(Len(ls) - 1) : Len(Trim(ls[k + 1])) > 0}
  IN  IF nonEmpty = {} THEN 0 - 1
      ELSE CHOOSE k \in nonEmpty : \A m \in nonEmpty : k >= m

(***************************************************************************)
(* The checks made on every record before the switch on its type.          *)
(***************************************************************************)
\* A type check that is skipped for records of the wrong length.
UnknownTypeDiags_FullLengthOnly(idx, line) ==
  When(CharAt(line, 0) \notin recordTypes /\ Len(line) = RecordLength,
       addDiag(idx, 0, Max(1, Min(Len(line), 1)), "Unknown record type", <<CharAt(line, 0)>>, 1))

UnknownTypeDiags(idx, line) ==
  When(CharAt(line, 0) \notin recordTypes,
       addDiag(idx, 0, Max(1, Min(Len(line), 1)), "Unknown record type", <<CharAt(line, 0)>>, 1))

\* A length check that lets records with trailing data pass.
LengthDiags_OnlyShort(idx, line) ==
  IF Len(line) < RecordLength
  THEN <<addDiag(idx, 0, Max(1, Len(line)), "Record length is less than required 94 characters",
                 <<NatToString(Len(line))>>, 1)>>
  ELSE << >>

LengthDiags(idx, line) ==
  IF Len(line) < RecordLength
  THEN <<addDiag(idx, 0, Max(1, Len(line)), "Record length is less than required 94 characters",
                 <<NatToString(Len(line))>>, 1)>>
  ELSE IF Len(line) > RecordLength
  THEN <<addDiag(idx, RecordLength, Len(line), "Record length exceeds 94 characters",
                 <<NatToString(Len(line))>>, 3)>>
  ELSE << >>

RecordDiags(idx, line) == UnknownTypeDiags(idx, line) \o LengthDiags(idx, line)

(***************************************************************************)
(* case '1': File Header                                                   *)
(***************************************************************************)
FileHeaderDiags(idx, line, seen) ==
  LET fileTime == getField(line, 29, 33)
  IN  When(seen, addDiag(idx, 0, 1, "Multiple File Header records (type 1) found", << >>, 1))
   \o When(idx # 0, addDiag(idx, 0, 1, "File Header (type 1) should be the first record", << >>, 1))
   \o When(getField(line, 1, 3) # <<"0", "1">>,
           addDiag(idx, 1, 3, "Priority Code should be '01'", <<getField(line, 1, 3)>>, 2))
   \o When(Len(Trim(getField(line, 3, 13))) = 0,
           addDiag(idx, 3, 13, "Immediate Destination is required", << >>, 1))
   \o When(Len(Trim(getField(line, 13, 23))) = 0,
           addDiag(idx, 13, 23, "Immediate Origin is required", << >>, 1))
   \o When(~IsDigitsN(getField(line, 23, 29), 6),
           addDiag(idx, 23, 29, "File Creation Date must be YYMMDD format", << >>, 1))
   \o When(Len(Trim(fileTime)) > 0 /\ ~IsDigitsN(fileTime, 4),
           addDiag(idx, 29, 33, "File Creation Time should be HHMM format", << >>, 2))
   \o When(getField(line, 34, 37) # <<"0", "9", "4">>,
           addDiag(idx, 34, 37, "Record Size must be 094", << >>, 1))
   \o When(getField(line, 37, 39) # <<"1", "0">>,
           addDiag(idx, 37, 39, "Blocking Factor must be 10", << >>, 1))
   \o When(getField(line, 39, 40) # <<"1">>,
           addDiag(idx, 39, 40, "Format Code must be 1", << >>, 1))

(***************************************************************************)
(* case '5': Batch Header                                                  *)
(***************************************************************************)
IAT == <<"I", "A", "T">>

HeaderSec(line) == Trim(getField(line, 50, 53))

validServiceClasses(sec) ==
  IF sec = IAT
  THEN << <<"2", "0", "0">>, <<"2", "2", "0">>, <<"2", "2", "5">> >>
  ELSE << <<"2", "0", "0">>, <<"2", "2", "0">>, <<"2", "2", "5">>, <<"2", "8", "0">> >>

BatchHeaderDiags(idx, line, seen, open) ==
  LET sec == HeaderSec(line)
      valid == validServiceClasses(sec)
  IN  When(~seen, addDiag(idx, 0, 1, "Batch Header (type 5) appears before File Header (type 1)", << >>, 1))
   \o When(open, addDiag(idx, 0, 1, "Nested Batch Header (type 5) without closing previous batch (type 8)", << >>, 1))
   \o When(\A k \in 1..Len(valid) : valid[k] # getField(line, 1, 4),
           addDiag(idx, 1, 4, "Invalid Service Class Code", <<sec>>, 1))
   \o When(sec = IAT /\ getField(line, 4, 7) # IAT,
           addDiag(idx, 4, 7, "IAT batches must have IAT in positions 5-7", << >>, 1))
   \o When(~IsDigitsN(getField(line, 69, 75), 6),
           addDiag(idx, 69, 75, "Effective Entry Date must be YYMMDD format", << >>, 1))
   \o When(getField(line, 78, 79) # <<"1">>,
           addDiag(idx, 78, 79, "Originator Status Code must be 1", << >>, 1))

(***************************************************************************)
(* case '6': Entry Detail                                                  *)
(***************************************************************************)
EntryAmount(line) == parseInt(getField(line, 29, 39))

EntryLastDigit(line) == parseInt(CharAt(getField(line, 1, 3), 1))

\* What the record adds to the credit sums and to the debit sums.
EntryCredit(line) ==
  LET amount == EntryAmount(line)
      lastDigit == EntryLastDigit(line)
  IN  IF ~isNaN(amount) /\ ~isNaN(lastDigit) /\ lastDigit.val >= 0 /\ lastDigit.val <= 4
      THEN amount.val ELSE 0

\* Variant: every numeric amount is also a debit.
EntryDebit_EveryAmount(line) ==
  LET amount == EntryAmount(line)
  IN  IF ~isNaN(amount) THEN amount.val ELSE 0

EntryDebit(line) ==
  LET amount == EntryAmount(line)
      lastDigit == EntryLastDigit(line)
  IN  IF ~isNaN(amount) /\ ~isNaN(lastDigit) /\ lastDigit.val >= 5 /\ lastDigit.val <= 9
      THEN amount.val ELSE 0

\* What the record adds to the entry hashes.
\* The entry makes BigInt(rdfi) throw: the routing passes validateRouting
\* and is not an integer literal.
EntryThrows(line) ==
  LET rdfi == getField(line, 3, 11)
  IN  validateRouting(rdfi) /\ BigIntThrows(rdfi)

EntryHash(line) ==
  LET rdfi == getField(line, 3, 11)
  IN  IF validateRouting(rdfi) THEN BigInt(rdfi) ELSE BigZero

\* A check that reads the check digit one column too far.
CheckDigitDiags_NextColumn(idx, line) ==
  LET rdfi == getField(line, 3, 11)
  IN  IF ~validateRouting(rdfi)
      THEN <<addDiag(idx, 3, 11, "Receiving DFI Identification must be 8 digits", << >>, 1)>>
      ELSE When(NumberDiffers(parseInt(getField(line, 12, 13)), calculateCheckDigit(rdfi)),
                addDiag(idx, 11, 12, "Invalid Check Digit",
                        <<NatToString(calculateCheckDigit(rdfi)), rdfi>>, 1))

CheckDigitDiags(idx, line) ==
  LET rdfi == getField(line, 3, 11)
      checkDigit == parseInt(getField(line, 11, 12))
      expectedCheckDigit == calculateCheckDigit(rdfi)
  IN  IF ~validateRouting(rdfi)
      THEN <<addDiag(idx, 3, 11, "Receiving DFI Identification must be 8 digits", << >>, 1)>>
      ELSE When(NumberDiffers(checkDigit, expectedCheckDigit),
                addDiag(idx, 11, 12, "Invalid Check Digit",
                        <<NatToString(expectedCheckDigit), rdfi>>, 1))

AddendaIndicatorDiags(idx, line, sec) ==
  LET addendaIndicator == getField(line, 78, 79)
      numAddendaStr == getField(line, 15, 17)
      numAddenda == parseInt(numAddendaStr)
  IN  IF sec = IAT
      THEN When(addendaIndicator # <<"1">>,
                addDiag(idx, 78, 79, "Addenda Record Indicator must be 1 for IAT entries", << >>, 1))
        \o When(isNaN(numAddenda) \/ numAddenda.val < 7,
                addDiag(idx, 15, 17, "IAT entries must have at least 07 addenda records",
                        <<numAddendaStr>>, 1))
      ELSE When(addendaIndicator # <<"0">> /\ addendaIndicator # <<"1">>,
                addDiag(idx, 78, 79, "Addenda Record Indicator must be 0 or 1", << >>, 1))

EntryDetailDiags(idx, line, open, sec) ==
      When(~open, addDiag(idx, 0, 1, "Entry Detail (type 6) appears outside of an open batch", << >>, 1))
   \o When(isNaN(EntryAmount(line)), addDiag(idx, 29, 39, "Amount must be numeric", << >>, 1))
   \o CheckDigitDiags(idx, line)
   \o AddendaIndicatorDiags(idx, line, sec)

(***************************************************************************)
(* case '7': Addenda                                                       *)
(***************************************************************************)
AddendaDiags(idx, line, open) ==
  When(~open, addDiag(idx, 0, 1, "Addenda (type 7) appears outside of an open batch", << >>, 1))

(***************************************************************************)
(* case '8': Batch Control.  hdr is the snapshot of the Batch Header       *)
(* fields, acc the accumulators of the current batch.                      *)
(***************************************************************************)
\* Variant: the service class is not cross-checked.
BatchCrossDiags_NoServiceClass(idx, line, hdr) ==
      When(getField(line, 44, 54) # hdr.id,
           addDiag(idx, 44, 54, "Company Identification matches Batch Header", <<hdr.id>>, 1))
   \o When(getField(line, 79, 87) # hdr.odfi,
           addDiag(idx, 79, 87, "Originating DFI Identification matches Batch Header", <<hdr.odfi>>, 1))
   \o When(getField(line, 87, 94) # hdr.number,
           addDiag(idx, 87, 94, "Batch Number matches Batch Header", <<hdr.number>>, 1))

BatchCrossDiags(idx, line, hdr) ==
      When(getField(line, 1, 4) # hdr.serviceClass,
           addDiag(idx, 1, 4, "Service Class Code matches Batch Header", <<hdr.serviceClass>>, 1))
   \o When(getField(line, 44, 54) # hdr.id,
           addDiag(idx, 44, 54, "Company Identification matches Batch Header", <<hdr.id>>, 1))
   \o When(getField(line, 79, 87) # hdr.odfi,
           addDiag(idx, 79, 87, "Originating DFI Identification matches Batch Header", <<hdr.odfi>>, 1))
   \o When(getField(line, 87, 94) # hdr.number,
           addDiag(idx, 87, 94, "Batch Number matches Batch Header", <<hdr.number>>, 1))

BatchTotalsDiags(idx, line, acc) ==
  LET ctrlEntryCount == parseInt(getField(line, 4, 10))
      ctrlHashStr == getField(line, 10, 20)
      currentBatchHashTail == HashTail(acc.entryHash)
      ctrlDebitAmount == parseInt(getField(line, 20, 32))
      ctrlCreditAmount == parseInt(getField(line, 32, 44))
  IN  When(NumberDiffers(ctrlEntryCount, acc.entryCount),
           addDiag(idx, 4, 10, "Entry/Addenda Count does not match actual count",
                   <<NumberToString(ctrlEntryCount), IntToString(acc.entryCount)>>, 1))
   \o When(ctrlHashStr # currentBatchHashTail,
           addDiag(idx, 10, 20, "Entry Hash does not match calculated hash",
                   <<ctrlHashStr, currentBatchHashTail>>, 1))
   \o When(NumberDiffers(ctrlDebitAmount, acc.debitAmount),
           addDiag(idx, 20, 32, "Total Debit amount does not match actual",
                   <<NumberToFixed2(ctrlDebitAmount), CentsToFixed2(acc.debitAmount)>>, 1))
   \o When(NumberDiffers(ctrlCreditAmount, acc.creditAmount),
           addDiag(idx, 32, 44, "Total Credit amount does not match actual",
                   <<NumberToFixed2(ctrlCreditAmount), CentsToFixed2(acc.creditAmount)>>, 1))

BatchControlDiags(idx, line, open, hdr, acc) ==
      When(~open, addDiag(idx, 0, 1, "Batch Control (type 8) appears without a matching Batch Header (type 5)", << >>, 1))
   \o BatchCrossDiags(idx, line, hdr)
   \o BatchTotalsDiags(idx, line, acc)

(***************************************************************************)
(* case '9': File Control.  ls is the whole list of lines, acc the         *)
(* accumulators of the file.                                               *)
(***************************************************************************)
\* A lookahead that takes a padding line after File Control for a record.
hasNonPaddingAfter_AnyLine(ls, idx) ==
  \E j \in (idx + 1)..(Len(ls) - 1) : Len(Trim(ls[j + 1])) > 0

hasNonPaddingAfter(ls, idx) ==
  \E j \in (idx + 1)..(Len(ls) - 1) :
    Len(Trim(ls[j + 1])) > 0 /\ ~isPaddingRow(ls[j + 1])

\* A record count that leaves the padding lines out.
totalRecords_NoPadding(ls) ==
  Cardinality({k \in 1..Len(ls) : Len(Trim(ls[k])) > 0 /\ ~isPaddingRow(ls[k])})

totalRecords(ls) == Cardinality({k \in 1..Len(ls) : Len(Trim(ls[k])) > 0})

\* A block count that rounds down instead of up.
expectedBlockCount_Floor(n) == n \div 10

\* Math.ceil(n / 10)
expectedBlockCount(n) == (n + 9) \div 10

FileTotalsDiags(idx, line, acc) ==
  LET fileBatchCount == parseInt(getField(line, 1, 7))
      fileEntryCount == parseInt(getField(line, 13, 21))
      fileHashStr == getField(line, 21, 31)
      fileHashTail == HashTail(acc.entryHash)
      fileDebitAmount == parseInt(getField(line, 31, 43))
      fileCreditAmount == parseInt(getField(line, 43, 55))
  IN  When(NumberDiffers(fileBatchCount, acc.batchCount),
           addDiag(idx, 1, 7, "Batch Count does not match actual batch count",
                   <<NumberToString(fileBatchCount), IntToString(acc.batchCount)>>, 1))
   \o When(NumberDiffers(fileEntryCount, acc.entryCount),
           addDiag(idx, 13, 21, "Total Entry/Addenda Count does not match actual count",
                   <<NumberToString(fileEntryCount), IntToString(acc.entryCount)>>, 1))
   \o When(fileHashStr # fileHashTail,
           addDiag(idx, 21, 31, "File Entry Hash does not match calculated hash",
                   <<fileHashStr, fileHashTail>>, 1))
   \o When(NumberDiffers(fileDebitAmount, acc.debitAmount),
           addDiag(idx, 31, 43, "File Total Debit amount does not match actual",
                   <<NumberToFixed2(fileDebitAmount), CentsToFixed2(acc.debitAmount)>>, 1))
   \o When(NumberDiffers(fileCreditAmount, acc.creditAmount),
           addDiag(idx, 43, 55, "File Total Credit amount does not match actual",
                   <<NumberToFixed2(fileCreditAmount), CentsToFixed2(acc.creditAmount)>>, 1))

BlockCountDiags(idx, line, ls) ==
  LET fileBlockCount == parseInt(getField(line, 7, 13))
  IN  When(NumberDiffers(fileBlockCount, expectedBlockCount(totalRecords(ls))),
           addDiag(idx, 7, 13, "Block Count does not match calculated count",
                   <<NumberToString(fileBlockCount),
                     NatToString(expectedBlockCount(totalRecords(ls))),
                     NatToString(totalRecords(ls))>>, 2))

FileControlDiags(idx, line, ls, seen, open, acc) ==
      When(~seen, addDiag(idx, 0, 1, "File Control (type 9) appears before File Header", << >>, 1))
   \o When(open, addDiag(idx, 0, 1, "File Control (type 9) appears while a batch is still open", << >>, 1))
   \o When(hasNonPaddingAfter(ls, idx),
           addDiag(idx, 0, 1, "File Control should be the final record (excluding padding)", << >>, 1))
   \o FileTotalsDiags(idx, line, acc)
   \o BlockCountDiags(idx, line, ls)

(***************************************************************************)
(* The checks after the loop.                                              *)
(***************************************************************************)
\* lines[lastIdx].charAt(0) throws a TypeError when it is evaluated for an
\* index that is not an index of lines; lastIdx >= 0 is tested first.
FinalThrows(ls) ==
  LET lastIdx == lastNonEmptyIndex(ls)
  IN  /\ \E k \in 1..Len(ls) : Len(ls[k]) > 0
      /\ lastIdx >= 0
      /\ lastIdx \notin 0..(Len(ls) - 1)

\* Final checks that report the missing File Control past the last line.
FinalDiags_PastEnd(ls, seen) ==
  LET lastIdx == lastNonEmptyIndex(ls)
  IN  IF \E k \in 1..Len(ls) : Len(ls[k]) > 0
      THEN When(~seen, addDiag(0, 0, 1, "Missing File Header (type 1) record", << >>, 1))
        \o When(lastIdx >= 0 /\ CharAt(ls[lastIdx + 1], 0) # <<"9">>,
                addDiag(Len(ls), 0, 1, "Missing File Control (type 9) record", << >>, 1))
      ELSE << >>

\* Final checks that report the missing File Control only when the File
\* Header is not missing.
FinalDiags_ElseIf(ls, seen) ==
  LET lastIdx == lastNonEmptyIndex(ls)
  IN  IF \E k \in 1..Len(ls) : Len(ls[k]) > 0
      THEN IF ~seen
           THEN <<addDiag(0, 0, 1, "Missing File Header (type 1) record", << >>, 1)>>
           ELSE When(lastIdx >= 0 /\ CharAt(ls[lastIdx + 1], 0) # <<"9">>,
                     addDiag(lastIdx, 0, 1, "Missing File Control (type 9) record", << >>, 1))
      ELSE << >>

FinalDiags(ls, seen) ==
  LET lastIdx == lastNonEmptyIndex(ls)
  IN  IF \E k \in 1..Len(ls) : Len(ls[k]) > 0
      THEN When(~seen, addDiag(0, 0, 1, "Missing File Header (type 1) record", << >>, 1))
        \o When(lastIdx >= 0 /\ CharAt(ls[lastIdx + 1], 0) # <<"9">>,
                addDiag(lastIdx, 0, 1, "Missing File Control (type 9) record", << >>, 1))
      ELSE << >>

(***************************************************************************)
(* text.split(/\r?\n/)                                                     *)
(***************************************************************************)
\* Variant: text.split(/\n/), which leaves a carriage return on the line.
SplitLines_LfOnly(text) ==
  LET nl == {k \in 1..Len(text) : text[k] = "\n"}
      Before(k) == Cardinality({m \in nl : m < k})
      StartOf(n) == IF n = 1 THEN 1
                    ELSE (CHOOSE k \in nl : Before(k) = n - 2) + 1
      EndOf(n) == IF n = Cardinality(nl) + 1 THEN Len(text)
                  ELSE (CHOOSE k \in nl : Before(k) = n - 1) - 1
  IN  [n \in 1..(Cardinality(nl) + 1) |->
         IF EndOf(n) < StartOf(n) THEN << >> ELSE SubSeq(text, StartOf(n), EndOf(n))]

SplitLines(text) ==
  LET nl == {k \in 1..Len(text) : text[k] = "\n"}
      \* the k-th line break, and the ends of the line before and after it
      Before(k) == Cardinality({m \in nl : m < k})
      StartOf(n) == IF n = 1 THEN 1
                    ELSE (CHOOSE k \in nl : Before(k) = n - 2) + 1
      BreakOf(n) == IF n = Cardinality(nl) + 1 THEN Len(text) + 1
                    ELSE CHOOSE k \in nl : Before(k) = n - 1
      EndOf(n) == LET b == BreakOf(n)
                  IN  IF b <= Len(text) /\ b - 1 >= StartOf(n) /\ text[b - 1] = "\r"
                      THEN b - 2 ELSE b - 1
  IN  [n \in 1..(Cardinality(nl) + 1) |->
         IF EndOf(n) < StartOf(n) THEN << >> ELSE SubSeq(text, StartOf(n), EndOf(n))]

(***************************************************************************)
(* The loop of parseAch: one action per kind of line.                      *)
(***************************************************************************)
Scanning == pc = "scan" /\ i < Len(lines)

line == lines[i + 1]

firstChar == CharAt(line, 0)

IsRecord == Scanning /\ Len(line) # 0 /\ ~isPaddingRow(line)

\* Variant: the new diagnostics are put in front of the list.
Advance_InFront(newDiags) ==
  /\ diags' = newDiags \o diags
  /\ i' = i + 1
  /\ UNCHANGED <<lines, pc, summary, lookupVars>>

Advance(newDiags) ==
  /\ diags' = diags \o newDiags
  /\ i' = i + 1
  /\ UNCHANGED <<lines, pc, summary, lookupVars>>

\* A blank line that closes the open batch.
ScanBlank_ClosesBatch ==
  /\ Scanning
  /\ Len(line) = 0
  /\ Advance(When(i < Len(lines) - 1,
                  addDiag(i, 0, 1, "Unexpected blank line in ACH file", << >>, 2)))
  /\ openBatch' = FALSE
  /\ UNCHANGED <<fileVars, currentBatchHeaderLine, currentBatchEntryCount,
                 currentBatchDebitAmount, currentBatchCreditAmount,
                 currentBatchEntryHash, currentBatchServiceClass, currentBatchId,
                 currentBatchOdfi, currentBatchNumber, currentBatchSec>>

ScanBlank_LineRange ==
  /\ Scanning
  /\ Len(line) = 0
  /\ Advance(When(i < Len(lines) - 1,
                  addDiag(i, 0, Len(line), "Unexpected blank line in ACH file", << >>, 2)))
  /\ UNCHANGED <<fileVars, batchVars>>

ScanBlank ==
  /\ Scanning
  /\ Len(line) = 0
  /\ Advance(When(i < Len(lines) - 1,
                  addDiag(i, 0, 1, "Unexpected blank line in ACH file", << >>, 2)))
  /\ UNCHANGED <<fileVars, batchVars>>

\* A padding step that counts the padding line as a record of the batch
\* and of the file.
ScanPadding_Counted ==
  /\ Scanning
  /\ Len(line) # 0
  /\ isPaddingRow(line)
  /\ Advance(<< >>)
  /\ currentBatchEntryCount' = currentBatchEntryCount + 1
  /\ totalEntryCount' = totalEntryCount + 1
  /\ UNCHANGED <<seenFileHeader, batchCount, totalDebitAmount, totalCreditAmount,
                 totalEntryHash, openBatch, currentBatchHeaderLine,
                 currentBatchDebitAmount, currentBatchCreditAmount,
                 currentBatchEntryHash, currentBatchServiceClass, currentBatchId,
                 currentBatchOdfi, currentBatchNumber, currentBatchSec>>

ScanPadding ==
  /\ Scanning
  /\ Len(line) # 0
  /\ isPaddingRow(line)
  /\ Advance(<< >>)
  /\ UNCHANGED <<fileVars, batchVars>>

ScanUnknown ==
  /\ IsRecord
  /\ firstChar \notin recordTypes
  /\ Advance(RecordDiags(i, line))
  /\ UNCHANGED <<fileVars, batchVars>>

\* A File Header that is not remembered.
ScanFileHeader_NotRecorded ==
  /\ IsRecord
  /\ firstChar = <<"1">>
  /\ Advance(RecordDiags(i, line) \o FileHeaderDiags(i, line, seenFileHeader))
  /\ UNCHANGED <<fileVars, batchVars>>

ScanFileHeader ==
  /\ IsRecord
  /\ firstChar = <<"1">>
  /\ Advance(RecordDiags(i, line) \o FileHeaderDiags(i, line, seenFileHeader))
  /\ seenFileHeader' = TRUE
  /\ UNCHANGED <<batchCount, totalEntryCount, totalDebitAmount, totalCreditAmount,
                 totalEntryHash, batchVars>>

ScanBatchHeader_KeepsCount ==
  /\ IsRecord
  /\ firstChar = <<"5">>
  /\ Advance(RecordDiags(i, line) \o BatchHeaderDiags(i, line, seenFileHeader, openBatch))
  /\ batchCount' = batchCount + 1
  /\ openBatch' = TRUE
  /\ currentBatchHeaderLine' = i
  /\ currentBatchDebitAmount' = 0
  /\ currentBatchCreditAmount' = 0
  /\ currentBatchEntryHash' = BigZero
  /\ currentBatchServiceClass' = getField(line, 1, 4)
  /\ currentBatchId' = getField(line, 40, 50)
  /\ currentBatchOdfi' = getField(line, 79, 87)
  /\ currentBatchNumber' = getField(line, 87, 94)
  /\ currentBatchSec' = HeaderSec(line)
  /\ UNCHANGED <<seenFileHeader, totalEntryCount, totalDebitAmount, totalCreditAmount,
                 totalEntryHash, currentBatchEntryCount>>

ScanBatchHeader ==
  /\ IsRecord
  /\ firstChar = <<"5">>
  /\ Advance(RecordDiags(i, line) \o BatchHeaderDiags(i, line, seenFileHeader, openBatch))
  /\ batchCount' = batchCount + 1
  /\ openBatch' = TRUE
  /\ currentBatchHeaderLine' = i
  /\ currentBatchEntryCount' = 0
  /\ currentBatchDebitAmount' = 0
  /\ currentBatchCreditAmount' = 0
  /\ currentBatchEntryHash' = BigZero
  /\ currentBatchServiceClass' = getField(line, 1, 4)
  /\ currentBatchId' = getField(line, 40, 50)
  /\ currentBatchOdfi' = getField(line, 79, 87)
  /\ currentBatchNumber' = getField(line, 87, 94)
  /\ currentBatchSec' = HeaderSec(line)
  /\ UNCHANGED <<seenFileHeader, totalEntryCount, totalDebitAmount, totalCreditAmount,
                 totalEntryHash>>

\* An exception leaves parseAch: nothing is returned and the locals are
\* discarded.
Throw ==
  /\ pc' = "threw"
  /\ UNCHANGED <<lines, i, diags, fileVars, batchVars, summary, lookupVars>>

ScanEntryDetailReturns ==
  /\ Advance(RecordDiags(i, line) \o EntryDetailDiags(i, line, openBatch, currentBatchSec))
  /\ currentBatchEntryCount' = currentBatchEntryCount + 1
  /\ totalEntryCount' = totalEntryCount + 1
  /\ currentBatchCreditAmount' = currentBatchCreditAmount + EntryCredit(line)
  /\ totalCreditAmount' = totalCreditAmount + EntryCredit(line)
  /\ currentBatchDebitAmount' = currentBatchDebitAmount + EntryDebit(line)
  /\ totalDebitAmount' = totalDebitAmount + EntryDebit(line)
  /\ currentBatchEntryHash' = BigAdd(currentBatchEntryHash, EntryHash(line))
  /\ totalEntryHash' = BigAdd(totalEntryHash, EntryHash(line))
  /\ UNCHANGED <<seenFileHeader, batchCount, openBatch, currentBatchHeaderLine,
                 currentBatchServiceClass, currentBatchId, currentBatchOdfi,
                 currentBatchNumber, currentBatchSec>>

ScanEntryDetail ==
  /\ IsRecord
  /\ firstChar = <<"6">>
  /\ IF EntryThrows(line) THEN Throw ELSE ScanEntryDetailReturns

\* An Addenda that is counted in the batch only.
ScanAddenda_BatchOnly ==
  /\ IsRecord
  /\ firstChar = <<"7">>
  /\ Advance(RecordDiags(i, line) \o AddendaDiags(i, line, openBatch))
  /\ currentBatchEntryCount' = currentBatchEntryCount + 1
  /\ UNCHANGED <<fileVars, openBatch, currentBatchHeaderLine,
                 currentBatchDebitAmount, currentBatchCreditAmount,
                 currentBatchEntryHash, currentBatchServiceClass, currentBatchId,
                 currentBatchOdfi, currentBatchNumber, currentBatchSec>>

ScanAddenda ==
  /\ IsRecord
  /\ firstChar = <<"7">>
  /\ Advance(RecordDiags(i, line) \o AddendaDiags(i, line, openBatch))
  /\ currentBatchEntryCount' = currentBatchEntryCount + 1
  /\ totalEntryCount' = totalEntryCount + 1
  /\ UNCHANGED <<seenFileHeader, batchCount, totalDebitAmount, totalCreditAmount,
                 totalEntryHash, openBatch, currentBatchHeaderLine,
                 currentBatchDebitAmount, currentBatchCreditAmount,
                 currentBatchEntryHash, currentBatchServiceClass, currentBatchId,
                 currentBatchOdfi, currentBatchNumber, currentBatchSec>>

\* The snapshot of the Batch Header and the accumulators of the batch.
BatchSnapshot ==
  [serviceClass |-> currentBatchServiceClass, id |-> currentBatchId,
   odfi |-> currentBatchOdfi, number |-> currentBatchNumber]

\* Batch accumulators that hold the totals of the file.
BatchAccumulator_OfFile ==
  [entryCount |-> totalEntryCount, entryHash |-> totalEntryHash,
   debitAmount |-> totalDebitAmount, creditAmount |-> totalCreditAmount]

BatchAccumulator ==
  [entryCount |-> currentBatchEntryCount, entryHash |-> currentBatchEntryHash,
   debitAmount |-> currentBatchDebitAmount, creditAmount |-> currentBatchCreditAmount]

\* File accumulators that hold the totals of the current batch.
FileAccumulator_OfBatch ==
  [batchCount |-> batchCount, entryCount |-> currentBatchEntryCount,
   entryHash |-> currentBatchEntryHash, debitAmount |-> currentBatchDebitAmount,
   creditAmount |-> currentBatchCreditAmount]

FileAccumulator ==
  [batchCount |-> batchCount, entryCount |-> totalEntryCount,
   entryHash |-> totalEntryHash, debitAmount |-> totalDebitAmount,
   creditAmount |-> totalCreditAmount]

\* A Batch Control that leaves the batch open.
ScanBatchControl_LeavesOpen ==
  /\ IsRecord
  /\ firstChar = <<"8">>
  /\ Advance(RecordDiags(i, line)
               \o BatchControlDiags(i, line, openBatch, BatchSnapshot, BatchAccumulator))
  /\ UNCHANGED <<fileVars, batchVars>>

ScanBatchControl ==
  /\ IsRecord
  /\ firstChar = <<"8">>
  /\ Advance(RecordDiags(i, line)
               \o BatchControlDiags(i, line, openBatch, BatchSnapshot, BatchAccumulator))
  /\ openBatch' = FALSE
  /\ UNCHANGED <<fileVars, currentBatchHeaderLine, currentBatchEntryCount,
                 currentBatchDebitAmount, currentBatchCreditAmount,
                 currentBatchEntryHash, currentBatchServiceClass, currentBatchId,
                 currentBatchOdfi, currentBatchNumber, currentBatchSec>>

\* A File Control that closes the open batch.
ScanFileControl_ClosesBatch ==
  /\ IsRecord
  /\ firstChar = <<"9">>
  /\ Advance(RecordDiags(i, line)
               \o FileControlDiags(i, line, lines, seenFileHeader, openBatch, FileAccumulator))
  /\ openBatch' = FALSE
  /\ UNCHANGED <<fileVars, currentBatchHeaderLine, currentBatchEntryCount,
                 currentBatchDebitAmount, currentBatchCreditAmount,
                 currentBatchEntryHash, currentBatchServiceClass, currentBatchId,
                 currentBatchOdfi, currentBatchNumber, currentBatchSec>>

ScanFileControl ==
  /\ IsRecord
  /\ firstChar = <<"9">>
  /\ Advance(RecordDiags(i, line)
               \o FileControlDiags(i, line, lines, seenFileHeader, openBatch, FileAccumulator))
  /\ UNCHANGED <<fileVars, batchVars>>

FinalChecks ==
  /\ pc = "scan"
  /\ i = Len(lines)
  /\ IF FinalThrows(lines) THEN Throw
     ELSE /\ diags' = diags \o FinalDiags(lines, seenFileHeader)
          /\ pc' = "done"
          /\ UNCHANGED <<lines, i, fileVars, batchVars, summary, lookupVars>>

(***************************************************************************)
(* parseAchSummary: the second pass over the same text, made by the editor *)
(* integration after parseAch has returned.  The source keeps the amounts  *)
(* as numbers of dollars (the field's integer divided by 100); the model   *)
(* keeps the same amounts as whole numbers of cents, so that the sums are  *)
(* exact.                                                                  *)
(***************************************************************************)
\* The accumulators before the loop.
NoSummary ==
  [batches |-> 0, entries |-> 0, totalDebit |-> 0, totalCredit |-> 0, netAmount |-> 0]

\* One iteration of the loop: what the line adds to each accumulator.
SummaryStep(ln) ==
  LET type == CharAt(ln, 0)
      long == Len(ln) >= 39
      amount == parseInt(Substring(ln, 29, 39))
      counted == long /\ ~isNaN(amount) /\ amount.val > 0
      lastDigit == parseInt(CharAt(Substring(ln, 1, 3), 1))
      ranged == ~isNaN(lastDigit)
  IN  IF Len(ln) = 0 THEN [batches |-> 0, entries |-> 0, debit |-> 0, credit |-> 0]
      ELSE IF type = <<"5">> THEN [batches |-> 1, entries |-> 0, debit |-> 0, credit |-> 0]
      ELSE IF type = <<"6">>
        THEN [batches |-> 0, entries |-> 1,
              debit |-> IF counted /\ ranged /\ lastDigit.val >= 5 /\ lastDigit.val <= 9
                        THEN amount.val ELSE 0,
              credit |-> IF counted /\ ranged /\ lastDigit.val >= 0 /\ lastDigit.val <= 4
                         THEN amount.val ELSE 0]
      ELSE [batches |-> 0, entries |-> 0, debit |-> 0, credit |-> 0]

\* The iterations first..last of the loop; the accumulators are sums, so
\* the range is split in two halves.
RECURSIVE SummaryLoop(_, _, _)
SummaryLoop(ls, first, last) ==
  IF first > last THEN [batches |-> 0, entries |-> 0, debit |-> 0, credit |-> 0]
  ELSE IF first = last THEN SummaryStep(ls[first])
  ELSE LET mid == (first + last) \div 2
           lo == SummaryLoop(ls, first, mid)
           hi == SummaryLoop(ls, mid + 1, last)
       IN  [batches |-> lo.batches + hi.batches, entries |-> lo.entries + hi.entries,
            debit |-> lo.debit + hi.debit, credit |-> lo.credit + hi.credit]

\* Variant: the net amount taken as debits less credits.
parseAchSummary_NetOfDebit(ls) ==
  LET acc == SummaryLoop(ls, 1, Len(ls))
  IN  [batches |-> acc.batches, entries |-> acc.entries,
       totalDebit |-> acc.debit, totalCredit |-> acc.credit,
       netAmount |-> acc.debit - acc.credit]

parseAchSummary(ls) ==
  LET acc == SummaryLoop(ls, 1, Len(ls))
  IN  [batches |-> acc.batches, entries |-> acc.entries,
       totalDebit |-> acc.debit, totalCredit |-> acc.credit,
       netAmount |-> acc.credit - acc.debit]

\* The editor integration computes the summary of the text it has parsed.
Summarize ==
  /\ pc = "done"
  /\ pc' = "summarized"
  /\ summary' = parseAchSummary(lines)
  /\ UNCHANGED <<lines, i, diags, fileVars, batchVars, lookupVars>>

(***************************************************************************)
(* Input records, laid out as the records of the parser's test suite.      *)
(***************************************************************************)
Spaces(n) == Repeat(" ", n)

PadNum(n, width) == PadStart(NatToString(n), width, "0")

SecPPD == <<"P", "P", "D">>

CompanyId == <<"1", "2", "3", "4", "5", "6", "7", "8", "9", "0">>

Odfi == <<"0", "6", "1", "0", "0", "0", "1", "0">>

Date == <<"2", "3", "1", "0", "2", "6">>

FileHeaderLine ==
  <<"1", "0", "1">> \o PadEnd(<<"D">>, 10, " ") \o PadEnd(<<"O">>, 10, " ") \o Date
    \o <<"0", "9", "0", "0">> \o <<"A">> \o <<"0", "9", "4">> \o <<"1", "0">> \o <<"1">>
    \o Spaces(23) \o Spaces(23) \o Spaces(8)

BatchHeaderLine(service, sec, number) ==
  <<"5">> \o service \o (IF sec = IAT THEN PadEnd(IAT, 16, " ") ELSE PadEnd(<<"C">>, 16, " "))
    \o Spaces(20) \o CompanyId \o sec \o Spaces(10) \o Spaces(6) \o Date \o Spaces(3)
    \o <<"1">> \o Odfi \o PadNum(number, 7)

EntryLine(tx, rdfi, cd, numAddenda, amount, indicator) ==
  <<"6">> \o tx \o rdfi \o cd \o Spaces(3) \o numAddenda \o Spaces(12) \o amount
    \o Spaces(39) \o indicator \o Odfi \o PadNum(1, 7)

AddendaLine(typeCode) == <<"7">> \o typeCode \o Spaces(91)

BatchControlLine(service, count, hash, debit, credit, number) ==
  <<"8">> \o service \o count \o hash \o debit \o credit \o CompanyId
    \o Spaces(19) \o Spaces(6) \o Odfi \o PadNum(number, 7)

FileControlLine(batches, blocks, count, hash, debit, credit) ==
  <<"9">> \o batches \o blocks \o count \o hash \o debit \o credit \o Spaces(39)

PaddingLine == Repeat("9", RecordLength)

Service200 == <<"2", "0", "0">>

Service220 == <<"2", "2", "0">>

Rdfi1 == <<"0", "6", "1", "0", "0", "0", "1", "0">>

Rdfi9 == Repeat("9", 8)

\* A credit of 12.34 to routing 06100010 4 that declares 7 addenda.
CreditEntry == EntryLine(<<"2", "2">>, Rdfi1, <<"4">>, <<"0", "7">>, PadNum(1234, 10), <<"1">>)

\* A debit of 5.00 from routing 99999999 2 that declares 3 addenda.
DebitEntry == EntryLine(<<"2", "7">>, Rdfi9, <<"2">>, <<"0", "3">>, PadNum(500, 10), <<"1">>)

\* A debit of 5.00 from routing 99999999 2 that declares 7 addenda.
DebitEntry7 == EntryLine(<<"2", "7">>, Rdfi9, <<"2">>, <<"0", "7">>, PadNum(500, 10), <<"1">>)

\* An entry with a wrong check digit, a blank amount and no indicator.
BadEntry == EntryLine(<<"2", "2">>, Rdfi1, <<"5">>, Spaces(2), Spaces(10), Spaces(1))

\* The text of a file: its lines joined by line feeds.
RECURSIVE JoinLines(_)
JoinLines(ls) ==
  IF Len(ls) = 0 THEN << >>
  ELSE IF Len(ls) = 1 THEN ls[1]
  ELSE JoinLines(SubSeq(ls, 1, Len(ls) \div 2)) \o <<"\n">>
         \o JoinLines(SubSeq(ls, Len(ls) \div 2 + 1, Len(ls)))

(***************************************************************************)
(* The vocabulary of the specification: record kinds, declared fields and  *)
(* the totals of a range of records, read directly from the lines.         *)
(***************************************************************************)
Kind(l) ==
  IF Len(l) = 0 THEN "Blank"
  ELSE IF Len(l) = 94 /\ \A k \in 1..94 : l[k] = "9" THEN "Padding"
  ELSE CASE l[1] = "1" -> "FileHeader"
         [] l[1] = "5" -> "BatchHeader"
         [] l[1] = "6" -> "EntryDetail"
         [] l[1] = "7" -> "Addenda"
         [] l[1] = "8" -> "BatchControl"
         [] l[1] = "9" -> "FileControl"
         [] OTHER -> "Unknown"

\* Columns [a, b) of a record, as far as the record reaches.
Cols(l, a, b) == [k \in 1..(Min(b, Len(l)) - Min(a, Len(l))) |-> l[a + k]]

AllDigits(str) == str # << >> /\ \A k \in 1..Len(str) : str[k] \in DigitSet

RECURSIVE SeqSum(_)
SeqSum(ns) ==
  IF Len(ns) = 0 THEN 0
  ELSE IF Len(ns) = 1 THEN ns[1]
  ELSE SeqSum(SubSeq(ns, 1, Len(ns) \div 2)) + SeqSum(SubSeq(ns, Len(ns) \div 2 + 1, Len(ns)))

\* The records of kind EntryDetail among lines first..last (0-based), in order.
RECURSIVE EntriesIn(_, _, _)
EntriesIn(ls, first, last) ==
  IF first > last THEN << >>
  ELSE IF first = last
  THEN (IF Kind(ls[first + 1]) = "EntryDetail" THEN <<ls[first + 1]>> ELSE << >>)
  ELSE EntriesIn(ls, first, (first + last) \div 2) \o EntriesIn(ls, (first + last) \div 2 + 1, last)

\* The number of Entry Detail and Addenda records among lines first..last.
CountOf(ls, first, last) ==
  Cardinality({k \in first..last : Kind(ls[k + 1]) \in {"EntryDetail", "Addenda"}})

\* The amount of an entry in cents, when its amount field is a number.
HasAmount(e) == ~parseInt(Cols(e, 29, 39)).nan

AmountOf(e) == parseInt(Cols(e, 29, 39)).val

IsCredit(e) == Len(e) >= 3 /\ e[3] \in {"0", "1", "2", "3", "4"}

IsDebit(e) == Len(e) >= 3 /\ e[3] \in {"5", "6", "7", "8", "9"}

CreditOf(ls, first, last) ==
  LET es == EntriesIn(ls, first, last)
  IN  SeqSum([k \in 1..Len(es) |-> IF HasAmount(es[k]) /\ IsCredit(es[k]) THEN AmountOf(es[k]) ELSE 0])

DebitOf(ls, first, last) ==
  LET es == EntriesIn(ls, first, last)
  IN  SeqSum([k \in 1..Len(es) |-> IF HasAmount(es[k]) /\ IsDebit(es[k]) THEN AmountOf(es[k]) ELSE 0])

\* The RDFI of an entry is valid when columns [3, 11) are 8 digits.
HasRdfi(e) == Len(Cols(e, 3, 11)) = 8 /\ AllDigits(Cols(e, 3, 11))

\* The sum of the valid RDFI values of the entries of lines first..last, as
\* the pair of the sum of their upper four digits and of their lower four.
HashHigh(ls, first, last) ==
  LET es == EntriesIn(ls, first, last)
  IN  SeqSum([k \in 1..Len(es) |-> IF HasRdfi(es[k]) THEN DigitsValue(Cols(es[k], 3, 7)) ELSE 0])

HashLow(ls, first, last) ==
  LET es == EntriesIn(ls, first, last)
  IN  SeqSum([k \in 1..Len(es) |-> IF HasRdfi(es[k]) THEN DigitsValue(Cols(es[k], 7, 11)) ELSE 0])

\* The sum is (HashHigh * 10^4 + HashLow); it reaches 10^10 when the upper
\* part, with the carry of the lower part, reaches 10^6.
HashUpper(ls, first, last) == HashHigh(ls, first, last) + HashLow(ls, first, last) \div 10000

HashWraps(ls, first, last) == HashUpper(ls, first, last) >= 1000000

\* The sum modulo 10^10, zero-padded to 10 digits.
HashOf(ls, first, last) ==
  PadNum(HashUpper(ls, first, last) % 1000000, 6) \o PadNum(HashLow(ls, first, last) % 10000, 4)

\* The line of the most recent Batch Header before line k, or -1.
HeaderBefore(ls, k) ==
  LET hs == {h \in 0..(k - 1) : Kind(ls[h + 1]) = "BatchHeader"}
  IN  IF hs = {} THEN 0 - 1 ELSE CHOOSE h \in hs : \A m \in hs : h >= m

BatchesBefore(ls, k) == Cardinality({h \in 0..(k - 1) : Kind(ls[h + 1]) = "BatchHeader"})

NonBlankLines(ls) ==
  Cardinality({k \in 1..Len(ls) : \E c \in 1..Len(ls[k]) : ~IsWhitespace(ls[k][c])})

BlocksOf(ls) ==
  CHOOSE b \in 0..Len(ls) : b * 10 >= NonBlankLines(ls) /\ (b - 1) * 10 < NonBlankLines(ls)

(***************************************************************************)
(* Free files: every sequence of at most MaxLines lines of RecordMenu, and *)
(* every sequence of at most MaxLines + 1 records of OrderMenu.            *)
(***************************************************************************)
MaxLines == 2

RecordMenu ==
  { << >>, Spaces(3), PaddingLine,
    FileHeaderLine,
    BatchHeaderLine(Service200, SecPPD, 1),
    BatchHeaderLine(Service220, IAT, 1),
    CreditEntry, DebitEntry, BadEntry,
    AddendaLine(<<"0", "5">>),
    BatchControlLine(Service200, PadNum(1, 6), PadNum(6100010, 10), PadNum(0, 12), PadNum(1234, 12), 1),
    FileControlLine(PadNum(1, 6), PadNum(1, 6), PadNum(1, 8), PadNum(6100010, 10), PadNum(0, 12), PadNum(1234, 12)),
    <<"2">> \o Repeat("X", 93),
    FileHeaderLine \o <<"X">>,
    <<"8">> }

OrderMenu ==
  { FileHeaderLine,
    BatchHeaderLine(Service200, SecPPD, 1),
    BatchHeaderLine(Service220, IAT, 1),
    DebitEntry,
    BatchControlLine(Service200, PadNum(1, 6), PadNum(99999999, 10), PadNum(500, 12), PadNum(0, 12), 1),
    FileControlLine(PadNum(1, 6), PadNum(1, 6), PadNum(1, 8), PadNum(99999999, 10), PadNum(500, 12), PadNum(0, 12)) }

FreeFiles ==
  UNION {[1..n -> RecordMenu] : n \in 0..MaxLines}
    \cup UNION {[1..n -> OrderMenu] : n \in 0..(MaxLines + 1)}

(***************************************************************************)
(* Single Entry Detail records over many routing numbers.                  *)
(***************************************************************************)
\* The routing number with digit d at position p and zeros elsewhere.
UnitRouting(p, d) == [k \in 1..8 |-> IF k = p THEN DigitChar(d) ELSE "0"]

RoutingSamples ==
  {UnitRouting(p, d) : p \in 1..8, d \in 0..9}
    \cup {Rdfi1, Rdfi9, <<"1", "2", "3", "4", "5", "6", "7", "8">>,
          <<"0", "6", "1", "0", "0", "0", "1", "X">>}

CheckDigitSamples == {<<DigitChar(d)>> : d \in 0..9} \cup {<<" ">>}

EntryFiles ==
  {<<EntryLine(<<"2", "2">>, r, c, <<"0", "7">>, PadNum(1234, 10), <<"0">>)>> :
     r \in RoutingSamples, c \in CheckDigitSamples}

(***************************************************************************)
(* Structured files: a File Header, batches and a File Control, of at most *)
(* MaxStructured lines.  A draft holds the records without their totals;   *)
(* completing it fills every control total with the computed one, except   *)
(* the one total that the defect <<line, field>> names.                    *)
(***************************************************************************)
MaxStructured == 7

BatchFields == {"count", "hash", "debit", "credit"}

FileFields == BatchFields \cup {"batches", "blocks"}

NoDefect == <<0 - 1, "none">>

\* A declared number: the computed one, or one more when it is the defect.
Declared(n, width, wrong) == PadNum(IF wrong THEN n + 1 ELSE n, width)

\* A declared hash: the computed one, or one with another last digit.
DeclaredHash(h, wrong) ==
  IF wrong THEN SubSeq(h, 1, 9) \o <<DigitChar((DigitVal(h[10]) + 1) % 10)>> ELSE h

\* The Batch Control of line k of the draft.
CompletedBatchControl(draft, k, wrong) ==
  LET h == HeaderBefore(draft, k)
  IN  BatchControlLine(Cols(draft[h + 1], 1, 4),
                       Declared(CountOf(draft, h + 1, k - 1), 6, "count" \in wrong),
                       DeclaredHash(HashOf(draft, h + 1, k - 1), "hash" \in wrong),
                       Declared(DebitOf(draft, h + 1, k - 1), 12, "debit" \in wrong),
                       Declared(CreditOf(draft, h + 1, k - 1), 12, "credit" \in wrong),
                       BatchesBefore(draft, k))

Completed(draft, defect) ==
  LET n == Len(draft)
      Wrong(k) == IF defect[1] = k THEN {defect[2]} ELSE {}
      body == [k \in 1..n |->
                 IF Kind(draft[k]) = "BatchControl"
                 THEN CompletedBatchControl(draft, k - 1, Wrong(k - 1))
                 ELSE draft[k]]
  IN  body \o <<FileControlLine(Declared(BatchesBefore(body, n), 6, "batches" \in Wrong(n)),
                                Declared((n + 10) \div 10, 6, "blocks" \in Wrong(n)),
                                Declared(CountOf(body, 0, n - 1), 8, "count" \in Wrong(n)),
                                DeclaredHash(HashOf(body, 0, n - 1), "hash" \in Wrong(n)),
                                Declared(DebitOf(body, 0, n - 1), 12, "debit" \in Wrong(n)),
                                Declared(CreditOf(body, 0, n - 1), 12, "credit" \in Wrong(n)))>>

Defects(draft) ==
  {NoDefect}
    \cup ({k \in 0..(Len(draft) - 1) : Kind(draft[k + 1]) = "BatchControl"} \X BatchFields)
    \cup ({Len(draft)} \X FileFields)

\* The shapes of the batches of a file: H a Batch Header, C a credit, D a
\* debit, A an addenda, B a Batch Control.
Skeletons ==
  UNION {{s \in [1..n -> {"H", "C", "D", "A", "B"}] :
            /\ s[1] = "H"
            /\ s[n] = "B"
            /\ \A k \in 2..n : (s[k] = "H") = (s[k - 1] = "B")} :
         n \in 2..(MaxStructured - 2)}

SkeletonLine(s, k, sec) ==
  LET number == Cardinality({m \in 1..k : s[m] = "H"})
  IN  CASE s[k] = "H" -> BatchHeaderLine(Service200, sec, number)
        [] s[k] = "C" -> CreditEntry
        [] s[k] = "D" -> DebitEntry7
        [] s[k] = "A" -> AddendaLine(<<"1", "0">>)
        [] s[k] = "B" -> BatchControlLine(Service200, Spaces(6), Spaces(10), Spaces(12), Spaces(12), number)

DraftsOf(sec) ==
  {<<FileHeaderLine>> \o [k \in 1..Len(s) |-> SkeletonLine(s, k, sec)] : s \in Skeletons}

Drafts == DraftsOf(SecPPD) \cup DraftsOf(IAT)

\* The PPD drafts with every defect, the IAT drafts without defect.
StructuredFiles ==
  UNION {{Completed(d, defect) : defect \in Defects(d)} : d \in DraftsOf(SecPPD)}
    \cup {Completed(d, NoDefect) : d \in DraftsOf(IAT)}

(***************************************************************************)
(* Long batches: HashRun entries for routing 99999999, whose sum exceeds   *)
(* ten digits.                                                             *)
(***************************************************************************)
HashRun == 101

HashEntry == EntryLine(<<"2", "2">>, Rdfi9, <<"2">>, <<"0", "7">>, PadNum(1234, 10), <<"1">>)

HashDraft ==
  <<FileHeaderLine, BatchHeaderLine(Service200, SecPPD, 1)>> \o Repeat(HashEntry, HashRun)
    \o <<BatchControlLine(Service200, Spaces(6), Spaces(10), Spaces(12), Spaces(12), 1)>>

HashFiles ==
  {Completed(HashDraft, defect) :
     defect \in {NoDefect, <<Len(HashDraft) - 1, "hash">>, <<Len(HashDraft), "hash">>}}

(***************************************************************************)
(* Blocked files: a File Control, a run of padding lines that brings the   *)
(* file to about one block of ten lines, and a tail of blank lines, lines  *)
(* of spaces or one more File Control.                                     *)
(***************************************************************************)
BlockRun == 10

BareFileControl(blocks) ==
  FileControlLine(PadNum(0, 6), PadNum(blocks, 6), PadNum(0, 8), PadNum(0, 10),
                  PadNum(0, 12), PadNum(0, 12))

\* A File Control that declares one batch and one block.
OneBatchFileControl ==
  FileControlLine(PadNum(1, 6), PadNum(1, 6), PadNum(0, 8), PadNum(0, 10),
                  PadNum(0, 12), PadNum(0, 12))

BlockTails ==
  { << >>, << << >> >>, << << >>, << >> >>, <<Spaces(3)>>, <<Spaces(3), << >> >>,
    <<OneBatchFileControl, Spaces(3)>>, << << >>, PaddingLine >>, << <<"8">>, << >> >> }

BlockFiles ==
  {<<BareFileControl(b)>> \o Repeat(PaddingLine, n) \o t :
     b \in 1..2, n \in (BlockRun - 2)..BlockRun, t \in BlockTails}

(***************************************************************************)
(* A complete file with padding lines inside a batch, after the batch and  *)
(* after the File Control.                                                 *)
(***************************************************************************)
PaddedDraft ==
  <<FileHeaderLine, BatchHeaderLine(Service200, SecPPD, 1), CreditEntry, PaddingLine,
    DebitEntry7,
    BatchControlLine(Service200, Spaces(6), Spaces(10), Spaces(12), Spaces(12), 1),
    PaddingLine>>

PaddedFiles == {Completed(PaddedDraft, NoDefect) \o <<PaddingLine>>}

(***************************************************************************)
(* A single Entry Detail with each sample of the amount field under each   *)
(* sample of the transaction code, whole and cut short inside or right     *)
(* after the amount field.                                                 *)
(***************************************************************************)
AmountSamples ==
  { PadNum(1234, 10), PadNum(0, 10), Spaces(10),
    Spaces(6) \o PadNum(1234, 4), PadNum(1234, 4) \o Spaces(6),
    <<"1", "2", "X">> \o PadNum(4567890, 7), <<"X">> \o PadNum(500, 9),
    <<"-">> \o PadNum(500, 9), <<"+">> \o PadNum(500, 9) }

TransactionCodeSamples == { <<"2", "2">>, <<"2", "7">>, <<"2", "X">>, <<"2", " ">> }

CutLengths == {30, 35, 38, 39, RecordLength}

AmountFiles ==
  {<<SubSeq(EntryLine(tx, Rdfi1, <<"4">>, <<"0", "7">>, a, <<"0">>), 1, n)>> :
     tx \in TransactionCodeSamples, a \in AmountSamples, n \in CutLengths}

(***************************************************************************)
(* A File Header and a Batch Header whose Originating DFI Identification   *)
(* is not eight digits.                                                    *)
(***************************************************************************)
OdfiSamples == { Repeat("X", 8), Spaces(8), <<"0", "6", "1", "0", "0", "0", "1", "X">> }

BatchHeaderWithOdfi(odfi) ==
  SubSeq(BatchHeaderLine(Service200, SecPPD, 1), 1, 79) \o odfi \o PadNum(1, 7)

OdfiFiles == {<<FileHeaderLine, BatchHeaderWithOdfi(o)>> : o \in OdfiSamples}

\* A file of two batches that both hold entries: a credit and a debit in the
\* first, a debit and an addenda in the second.
TwoBatchSkeleton == <<"H", "C", "D", "B", "H", "D", "A", "B">>

TwoBatchFiles ==
  {Completed(<<FileHeaderLine>>
               \o [k \in 1..Len(TwoBatchSkeleton) |-> SkeletonLine(TwoBatchSkeleton, k, SecPPD)],
             NoDefect)}

Files ==
  FreeFiles \cup EntryFiles \cup StructuredFiles \cup HashFiles \cup BlockFiles
    \cup PaddedFiles \cup AmountFiles \cup OdfiFiles \cup TwoBatchFiles

(***************************************************************************)
(* The registry of field layouts and the lookup of the field at a column.  *)
(* A descriptor keeps its start, its end (exclusive) and its name; the     *)
(* descriptions are display text only.                                     *)
(***************************************************************************)
Field(s, e, n) == [start |-> s, end |-> e, name |-> n]

\* The value of a lookup that finds nothing.
undefined == [start |-> 0 - 1, end |-> 0 - 1, name |-> "undefined"]

\* No layout under the key.
NoFields == << >>

iatRecordFields(key) ==
  CASE key = <<"5">> ->
         << Field(0, 1, "Record Type Code"),
            Field(1, 4, "Service Class Code"), Field(4, 12, "IAT Indicator"),
            Field(12, 20, "Reserved"),
            Field(20, 22, "Foreign Exchange Indicator"),
            Field(22, 23, "Foreign Exchange Reference Indicator"),
            Field(23, 38, "Foreign Exchange Reference"),
            Field(38, 40, "ISO Destination Country Code"),
            Field(40, 50, "Originator Identification"),
            Field(50, 53, "Standard Entry Class"),
            Field(53, 63, "Company Entry Description"),
            Field(63, 66, "ISO Originating Currency Code"),
            Field(66, 69, "ISO Destination Currency Code"),
            Field(69, 75, "Effective Entry Date"),
            Field(75, 78, "Settlement Date (Julian)"),
            Field(78, 79, "Originator Status Code"),
            Field(79, 87, "Originating DFI Identification"),
            Field(87, 94, "Batch Number") >>
    [] key = <<"6">> ->
         << Field(0, 1, "Record Type Code"), Field(1, 3, "Transaction Code"),
            Field(3, 11, "Receiving DFI Identification"),
            Field(11, 12, "Check Digit"), Field(12, 15, "Reserved"),
            Field(15, 17, "Number of Addenda Records"),
            Field(17, 29, "Reserved"), Field(29, 39, "Amount"),
            Field(39, 74, "Foreign Receiver's Account Number"),
            Field(74, 76, "Reserved"),
            Field(76, 78, "Gateway Operator Screening Indicator"),
            Field(78, 79, "Addenda Record Indicator"),
            Field(79, 94, "Trace Number") >>
    [] OTHER -> NoFields

addendaIATFields(key) ==
  CASE key = <<"1", "0">> ->
         << Field(0, 1, "Record Type Code"),
            Field(1, 3, "Addenda Type Code"),
            Field(3, 6, "Transaction Type Code"),
            Field(6, 24, "Foreign Payment Amount"),
            Field(24, 26, "Foreign Exchange Indicator"),
            Field(26, 61, "Receiver Name"), Field(61, 79, "Reserved"),
            Field(79, 94, "Trace Number") >>
    [] key = <<"1", "1">> ->
         << Field(0, 1, "Record Type Code"),
            Field(1, 3, "Addenda Type Code"),
            Field(3, 38, "Originator Name"),
            Field(38, 73, "Originator Street Address"),
            Field(73, 79, "Reserved"), Field(79, 94, "Trace Number") >>
    [] key = <<"1", "2">> ->
         << Field(0, 1, "Record Type Code"),
            Field(1, 3, "Addenda Type Code"),
            Field(3, 38, "Originator City"),
            Field(38, 73, "Originator State/Country/Postal"),
            Field(73, 79, "Reserved"), Field(79, 94, "Trace Number") >>
    [] key = <<"1", "3">> ->
         << Field(0, 1, "Record Type Code"),
            Field(1, 3, "Addenda Type Code"), Field(3, 38, "ODFI Name"),
            Field(38, 73, "ODFI ID / Country Code"),
            Field(73, 79, "Reserved"), Field(79, 94, "Trace Number") >>
    [] key = <<"1", "4">> ->
         << Field(0, 1, "Record Type Code"),
            Field(1, 3, "Addenda Type Code"), Field(3, 38, "RDFI Name"),
            Field(38, 73, "RDFI ID / Country Code"),
            Field(73, 79, "Reserved"), Field(79, 94, "Trace Number") >>
    [] key = <<"1", "5">> ->
         << Field(0, 1, "Record Type Code"),
            Field(1, 3, "Addenda Type Code"),
            Field(3, 38, "Receiver ID Number"),
            Field(38, 73, "Receiver Street Address"),
            Field(73, 79, "Reserved"), Field(79, 94, "Trace Number") >>
    [] key = <<"1", "6">> ->
         << Field(0, 1, "Record Type Code"),
            Field(1, 3, "Addenda Type Code"), Field(3, 38, "Receiver City"),
            Field(38, 73, "Receiver State/Country/Postal"),
            Field(73, 79, "Reserved"), Field(79, 94, "Trace Number") >>
    [] OTHER -> NoFields

recordFields(key) ==
  CASE key = <<"1">> ->
         << Field(0, 1, "Record Type Code"), Field(1, 3, "Priority Code"),
            Field(3, 13, "Immediate Destination"),
            Field(13, 23, "Immediate Origin"),
            Field(23, 29, "File Creation Date"),
            Field(29, 33, "File Creation Time"),
            Field(33, 34, "File ID Modifier"), Field(34, 37, "Record Size"),
            Field(37, 39, "Blocking Factor"), Field(39, 40, "Format Code"),
            Field(40, 63, "Immediate Destination Name"),
            Field(63, 86, "Immediate Origin Name"),
            Field(86, 94, "Reference Code") >>
    [] key = <<"5">> ->
         << Field(0, 1, "Record Type Code"),
            Field(1, 4, "Service Class Code"), Field(4, 20, "Company Name"),
            Field(20, 40, "Company Discretionary Data"),
            Field(40, 50, "Company Identification"),
            Field(50, 53, "Standard Entry Class"),
            Field(53, 63, "Company Entry Description"),
            Field(63, 69, "Company Descriptive Date"),
            Field(69, 75, "Effective Entry Date"),
            Field(75, 78, "Settlement Date (Julian)"),
            Field(78, 79, "Originator Status Code"),
            Field(79, 87, "Originating DFI Identification"),
            Field(87, 94, "Batch Number") >>
    [] key = <<"6">> ->
         << Field(0, 1, "Record Type Code"), Field(1, 3, "Transaction Code"),
            Field(3, 11, "Receiving DFI Identification"),
            Field(11, 12, "Check Digit"),
            Field(12, 29, "DFI Account Number"), Field(29, 39, "Amount"),
            Field(39, 54, "Individual Identification Number"),
            Field(54, 76, "Individual Name"),
            Field(76, 78, "Discretionary Data"),
            Field(78, 79, "Addenda Record Indicator"),
            Field(79, 94, "Trace Number") >>
    [] key = <<"7">> ->
         << Field(0, 1, "Record Type Code"),
            Field(1, 3, "Addenda Type Code"),
            Field(3, 83, "Payment Related Information"),
            Field(83, 87, "Addenda Sequence Number"),
            Field(87, 94, "Entry Detail Sequence Number") >>
    [] key = <<"8">> ->
         << Field(0, 1, "Record Type Code"),
            Field(1, 4, "Service Class Code"),
            Field(4, 10, "Entry/Addenda Count"), Field(10, 20, "Entry Hash"),
            Field(20, 32, "Total Debit Entry Dollar Amount"),
            Field(32, 44, "Total Credit Entry Dollar Amount"),
            Field(44, 54, "Company Identification"),
            Field(54, 73, "Message Authentication Code"),
            Field(73, 79, "Reserved"),
            Field(79, 87, "Originating DFI Identification"),
            Field(87, 94, "Batch Number") >>
    [] key = <<"9">> ->
         << Field(0, 1, "Record Type Code"), Field(1, 7, "Batch Count"),
            Field(7, 13, "Block Count"),
            Field(13, 21, "Entry/Addenda Count"),
            Field(21, 31, "Entry Hash"),
            Field(31, 43, "Total Debit Entry Dollar Amount"),
            Field(43, 55, "Total Credit Entry Dollar Amount"),
            Field(55, 94, "Reserved") >>
    [] OTHER -> NoFields

\* Variant: the IAT layouts of record types 5 and 6 under every SEC code.
getFieldsForRecord_AnySec(recordType, ln, secCode) ==
  IF recordType = <<"5">> \/ recordType = <<"6">> THEN iatRecordFields(recordType)
  ELSE IF secCode = IAT /\ recordType = <<"7">> /\ Len(ln) >= 3
            /\ addendaIATFields(Substring(ln, 1, 3)) # NoFields
  THEN addendaIATFields(Substring(ln, 1, 3))
  ELSE recordFields(recordType)

\* An absent line argument is the empty line here: the line is only read
\* behind the test (line && line.length >= 3).
getFieldsForRecord(recordType, ln, secCode) ==
  LET addendaType == Substring(ln, 1, 3)
      fields ==
        IF secCode = IAT
        THEN IF recordType = <<"5">> \/ recordType = <<"6">> THEN iatRecordFields(recordType)
             ELSE IF recordType = <<"7">> /\ Len(ln) >= 3
             THEN (IF addendaIATFields(addendaType) # NoFields
                   THEN addendaIATFields(addendaType) ELSE recordFields(<<"7">>))
             ELSE NoFields
        ELSE NoFields
  IN  IF fields = NoFields THEN recordFields(recordType) ELSE fields

\* Variant: a descriptor covers only the columns after its start.
getFieldAtPosition_AfterStart(recordType, position, ln, secCode) ==
  LET fields == getFieldsForRecord(recordType, ln, secCode)
      hits == {k \in 1..Len(fields) : position > fields[k].start /\ position < fields[k].end}
  IN  IF hits = {} THEN undefined
      ELSE fields[CHOOSE k \in hits : \A m \in hits : k <= m]

getFieldAtPosition(recordType, position, ln, secCode) ==
  LET fields == getFieldsForRecord(recordType, ln, secCode)
      hits == {k \in 1..Len(fields) : position >= fields[k].start /\ position < fields[k].end}
  IN  IF hits = {} THEN undefined
      ELSE fields[CHOOSE k \in hits : \A m \in hits : k <= m]

\* The keys of recordTypeDescriptions.
recordTypeDescriptions == { <<"1">>, <<"5">>, <<"6">>, <<"7">>, <<"8">>, <<"9">> }

\* Variant: the search does not end at a line that starts with '1'.
hoverSecCode_PastFileHeader(ls, k) ==
  LET stops == {j \in 0..k : CharAt(ls[j + 1], 0) = <<"5">> /\ Len(ls[j + 1]) >= 53}
      last == CHOOSE j \in stops : \A m \in stops : j >= m
  IN  IF stops = {} THEN << >> ELSE Trim(Substring(ls[last + 1], 50, 53))

\* The SEC code that a hover on line k (0-based) of the document finds:
\* the lines are visited from k down to 0 until one starts with '5' and has
\* at least 53 characters, whose columns [50, 53) are taken and trimmed, or
\* one starts with '1', which ends the search with the empty code.
hoverSecCode(ls, k) ==
  LET stops == {j \in 0..k :
                  \/ CharAt(ls[j + 1], 0) = <<"5">> /\ Len(ls[j + 1]) >= 53
                  \/ CharAt(ls[j + 1], 0) = <<"1">>}
      last == CHOOSE j \in stops : \A m \in stops : j >= m
  IN  IF stops = {} THEN << >>
      ELSE IF CharAt(ls[last + 1], 0) = <<"5">> THEN Trim(Substring(ls[last + 1], 50, 53))
      ELSE << >>

\* No position is hovered.
NoCursor == [line |-> 0, character |-> 0]

\* No lookup was made.
NoQuery == [recordType |-> << >>, position |-> 0, line |-> << >>, secCode |-> << >>]

\* The state of parseAch before the first line.
ParserStart ==
  /\ i = 0
  /\ diags = << >>
  /\ seenFileHeader = FALSE
  /\ openBatch = FALSE
  /\ batchCount = 0
  /\ totalEntryCount = 0
  /\ totalDebitAmount = 0
  /\ totalCreditAmount = 0
  /\ totalEntryHash = BigZero
  /\ currentBatchHeaderLine = 0 - 1
  /\ currentBatchEntryCount = 0
  /\ currentBatchDebitAmount = 0
  /\ currentBatchCreditAmount = 0
  /\ currentBatchEntryHash = BigZero
  /\ currentBatchServiceClass = << >>
  /\ currentBatchId = << >>
  /\ currentBatchOdfi = << >>
  /\ currentBatchNumber = << >>
  /\ currentBatchSec = << >>

Init ==
  /\ \E f \in Files : lines = SplitLines(JoinLines(f))
  /\ pc = "scan"
  /\ ParserStart
  /\ summary = NoSummary
  /\ query = NoQuery
  /\ answer = undefined
  /\ cursor = NoCursor

Next ==
  \/ ScanBlank
  \/ ScanPadding
  \/ ScanUnknown
  \/ ScanFileHeader
  \/ ScanBatchHeader
  \/ ScanEntryDetail
  \/ ScanAddenda
  \/ ScanBatchControl
  \/ ScanFileControl
  \/ FinalChecks
  \/ Summarize

Spec == Init /\ [][Next]_vars

(***************************************************************************)
(* The lookup of a field, on its own: a query is a record type, a column,  *)
(* the text of the line and the SEC code of the batch around it.           *)
(***************************************************************************)
MaxColumn == 95

RecordTypeSamples ==
  { <<"1">>, <<"5">>, <<"6">>, <<"7">>, <<"8">>, <<"9">>, <<"2">>, <<" ">> }

AddendaTypeSamples ==
  { <<"1", DigitChar(d)>> : d \in 0..7 } \cup { <<"0", "2">>, <<"0", "5">>, <<"1", " ">> }

\* The empty line, a line too short for an addenda type code, and lines
\* that start with each sample of the code.
LineSamples ==
  { << >>, <<"7">>, <<"7", "1">> } \cup { <<"7">> \o t \o Spaces(2) : t \in AddendaTypeSamples }

SecSamples == { IAT, SecPPD, << >> }

Queries ==
  { [recordType |-> t, position |-> c, line |-> l, secCode |-> sec] :
      t \in RecordTypeSamples, c \in 0..MaxColumn, l \in LineSamples, sec \in SecSamples }

FieldInit ==
  /\ query \in Queries
  /\ answer = undefined
  /\ cursor = NoCursor
  /\ pc = "query"
  /\ lines = << >>
  /\ ParserStart
  /\ summary = NoSummary

Lookup ==
  /\ pc = "query"
  /\ answer' = getFieldAtPosition(query.recordType, query.position, query.line, query.secCode)
  /\ pc' = "answered"
  /\ UNCHANGED <<lines, i, diags, fileVars, batchVars, summary, query, cursor>>

FieldNext == Lookup

FieldSpec == FieldInit /\ [][FieldNext]_vars

(***************************************************************************)
(* The hover: the editor asks for the field under a position of an open    *)
(* document.                                                               *)
(***************************************************************************)
MaxDoc == 3

HoverMenu ==
  { PaddingLine, <<"2">> \o Repeat("X", 93),
    FileHeaderLine,
    BatchHeaderLine(Service200, SecPPD, 1),
    BatchHeaderLine(Service200, <<" ", "C", "D">>, 1),
    BatchHeaderLine(Service220, IAT, 1),
    SubSeq(BatchHeaderLine(Service220, IAT, 1), 1, 52),
    CreditEntry,
    AddendaLine(<<"1", "0">>),
    BatchControlLine(Service200, PadNum(1, 6), PadNum(6100010, 10), PadNum(0, 12), PadNum(1234, 12), 1) }

HoverDocs == UNION {[1..n -> HoverMenu] : n \in 1..MaxDoc}

CursorColumns == {0, 4, 50, 93}

HoverInit ==
  /\ lines \in HoverDocs
  /\ \E k \in 0..(MaxDoc - 1), c \in CursorColumns : cursor = [line |-> k, character |-> c]
  /\ cursor.line < Len(lines)
  /\ query = NoQuery
  /\ answer = undefined
  /\ pc = "hover"
  /\ ParserStart
  /\ summary = NoSummary

\* provideHover up to the lookup of the field: no lookup is made on an
\* empty line, on a line whose first character has no description, or on a
\* padding row.
provideHover ==
  /\ pc = "hover"
  /\ pc' = "hovered"
  /\ LET text == lines[cursor.line + 1]
         recordType == CharAt(text, 0)
         secCode == IF recordType \in { <<"5">>, <<"6">>, <<"7">>, <<"8">> }
                    THEN hoverSecCode(lines, cursor.line) ELSE << >>
     IN  IF Len(text) = 0 \/ recordType \notin recordTypeDescriptions \/ isPaddingRow(text)
         THEN UNCHANGED <<query, answer>>
         ELSE /\ query' = [recordType |-> recordType, position |-> cursor.character,
                           line |-> text, secCode |-> secCode]
              /\ answer' = getFieldAtPosition(recordType, cursor.character, text, secCode)
  /\ UNCHANGED <<lines, i, diags, fileVars, batchVars, summary, cursor>>

HoverNext == provideHover

HoverSpec == HoverInit /\ [][HoverNext]_vars

TypeOK ==
  /\ i \in 0..Len(lines)
  /\ pc \in {"scan", "done", "threw", "summarized"}

(***************************************************************************)
(* Well-formed files.                                                      *)
(***************************************************************************)
\* The check digit of 8 digits, by the weights 3 7 1 3 7 1 3 7.
CheckDigitOf(r) ==
  (10 - ((3 * DigitVal(r[1]) + 7 * DigitVal(r[2]) + 1 * DigitVal(r[3]) + 3 * DigitVal(r[4])
           + 7 * DigitVal(r[5]) + 1 * DigitVal(r[6]) + 3 * DigitVal(r[7]) + 7 * DigitVal(r[8])) % 10)) % 10

\* The SEC code of a Batch Header.
SecOf(h) == Trim(Cols(h, 50, 53))

\* A declared numeric field reads as the number n.
Declares(field, n) == ~parseInt(field).nan /\ parseInt(field).val = n

ValidFileHeader(l) ==
  /\ Cols(l, 1, 3) = <<"0", "1">>
  /\ \E k \in 4..13 : l[k] # " "
  /\ \E k \in 14..23 : l[k] # " "
  /\ AllDigits(Cols(l, 23, 29))
  /\ (AllDigits(Cols(l, 29, 33)) \/ Cols(l, 29, 33) = Spaces(4))
  /\ Cols(l, 34, 40) = <<"0", "9", "4", "1", "0", "1">>

ValidBatchHeader(l) ==
  /\ Cols(l, 1, 4) \in {<<"2", "0", "0">>, <<"2", "2", "0">>, <<"2", "2", "5">>}
       \cup (IF SecOf(l) = IAT THEN {} ELSE {<<"2", "8", "0">>})
  /\ SecOf(l) = IAT => Cols(l, 4, 7) = IAT
  /\ AllDigits(Cols(l, 69, 75))
  /\ l[79] = "1"

\* e is a valid entry of a batch whose SEC code is sec.
ValidEntry(e, sec) ==
  /\ AllDigits(Cols(e, 29, 39))
  /\ AllDigits(Cols(e, 3, 11))
  /\ e[12] = DigitChar(CheckDigitOf(Cols(e, 3, 11)))
  /\ IF sec = IAT
     THEN e[79] = "1" /\ AllDigits(Cols(e, 15, 17)) /\ DigitsValue(Cols(e, 15, 17)) >= 7
     ELSE e[79] \in {"0", "1"}

\* The Batch Control c matches the Batch Header h and the lines between.
ValidBatchControl(ls, h, k) ==
  LET c == ls[k + 1]
      hd == ls[h + 1]
  IN  /\ Cols(c, 1, 4) = Cols(hd, 1, 4)
      /\ Cols(c, 44, 54) = Cols(hd, 40, 50)
      /\ Cols(c, 79, 94) = Cols(hd, 79, 94)
      /\ Declares(Cols(c, 4, 10), CountOf(ls, h + 1, k - 1))
      /\ Cols(c, 10, 20) = HashOf(ls, h + 1, k - 1)
      /\ Declares(Cols(c, 20, 32), DebitOf(ls, h + 1, k - 1))
      /\ Declares(Cols(c, 32, 44), CreditOf(ls, h + 1, k - 1))

ValidFileControl(ls, k) ==
  LET c == ls[k + 1]
  IN  /\ Declares(Cols(c, 1, 7), BatchesBefore(ls, k))
      /\ Declares(Cols(c, 7, 13), BlocksOf(ls))
      /\ Declares(Cols(c, 13, 21), CountOf(ls, 0, k - 1))
      /\ Cols(c, 21, 31) = HashOf(ls, 0, k - 1)
      /\ Declares(Cols(c, 31, 43), DebitOf(ls, 0, k - 1))
      /\ Declares(Cols(c, 43, 55), CreditOf(ls, 0, k - 1))

\* A File Header, one or more batches that do not nest, a File Control;
\* every record 94 characters, every field valid, every total right.
WellFormed(ls) ==
  LET n == Len(ls)
      K(k) == Kind(ls[k + 1])
  IN  /\ n >= 4
      /\ \A k \in 0..(n - 1) : Len(ls[k + 1]) = 94
      /\ K(0) = "FileHeader" /\ ValidFileHeader(ls[1])
      /\ K(n - 1) = "FileControl" /\ ValidFileControl(ls, n - 1)
      /\ K(n - 2) = "BatchControl"
      /\ \A k \in 1..(n - 2) :
           CASE K(k) = "BatchHeader" ->
                  K(k - 1) \in {"FileHeader", "BatchControl"} /\ ValidBatchHeader(ls[k + 1])
             [] K(k) = "EntryDetail" ->
                  /\ K(k - 1) \in {"BatchHeader", "EntryDetail", "Addenda"}
                  /\ ValidEntry(ls[k + 1], SecOf(ls[HeaderBefore(ls, k) + 1]))
             [] K(k) = "Addenda" ->
                  K(k - 1) \in {"BatchHeader", "EntryDetail", "Addenda"}
             [] K(k) = "BatchControl" ->
                  /\ K(k - 1) \in {"BatchHeader", "EntryDetail", "Addenda"}
                  /\ ValidBatchControl(ls, HeaderBefore(ls, k), k)
             [] OTHER -> FALSE

Done == pc = "done"

\* C1: parseAch returns the empty list for every well-formed file: a File
\* Header at line 0, one or more batches that do not nest, a final File
\* Control, every record 94 characters, every checked field valid and every
\* declared control total equal to the computed one.
C1_WellFormedFileHasNoDiagnostics == (Done /\ WellFormed(lines)) => diags = << >>

\* A well-formed file of two batches, one of them with entries, was scanned.
C1_Witness ==
  /\ Done
  /\ WellFormed(lines)
  /\ BatchesBefore(lines, Len(lines)) = 2
  /\ CountOf(lines, 0, Len(lines) - 1) > 0

(***************************************************************************)
(* Reading the diagnostics and the lines of a scan.                        *)
(***************************************************************************)
\* The number of diagnostics with this message at line k.
DiagCount(k, message) ==
  Cardinality({d \in 1..Len(diags) : diags[d].line = k /\ diags[d].message = message})

HasDiag(k, message) == DiagCount(k, message) > 0

LineKind(k) == Kind(lines[k + 1])

LinesOfKind(kind) == {k \in 0..(Len(lines) - 1) : LineKind(k) = kind}

\* A batch is open before line k: the most recent Batch Header or Batch
\* Control before it is a Batch Header.
OpenBefore(ls, k) ==
  \E h \in 0..(k - 1) :
    /\ Kind(ls[h + 1]) = "BatchHeader"
    /\ \A m \in (h + 1)..(k - 1) : Kind(ls[m + 1]) \notin {"BatchHeader", "BatchControl"}

\* The exact sum of the valid RDFI values of the entries of lines
\* first..last, in decimal.
FullHashOf(ls, first, last) ==
  IF HashUpper(ls, first, last) = 0 THEN NatToString(HashLow(ls, first, last))
  ELSE NatToString(HashUpper(ls, first, last)) \o PadNum(HashLow(ls, first, last) % 10000, 4)

MsgBatchCount == "Entry/Addenda Count does not match actual count"

MsgBatchHash == "Entry Hash does not match calculated hash"

MsgBatchDebit == "Total Debit amount does not match actual"

MsgBatchCredit == "Total Credit amount does not match actual"

\* C2: at every Batch Control, each of the four totals (entry/addenda count,
\* entry hash, total debit, total credit) gets a mismatch diagnostic if and
\* only if the declared field differs from the value computed over the Entry
\* Detail and Addenda records since the most recent Batch Header (since the
\* start of the file when there is none).
C2_BatchControlTotals ==
  Done =>
    \A k \in LinesOfKind("BatchControl") :
      LET c == lines[k + 1]
          h == HeaderBefore(lines, k)
      IN  /\ HasDiag(k, MsgBatchCount) <=> ~Declares(Cols(c, 4, 10), CountOf(lines, h + 1, k - 1))
          /\ HasDiag(k, MsgBatchHash) <=> Cols(c, 10, 20) # HashOf(lines, h + 1, k - 1)
          /\ HasDiag(k, MsgBatchDebit) <=> ~Declares(Cols(c, 20, 32), DebitOf(lines, h + 1, k - 1))
          /\ HasDiag(k, MsgBatchCredit) <=> ~Declares(Cols(c, 32, 44), CreditOf(lines, h + 1, k - 1))

\* The Batch Control of a second batch is flagged for its count only, after
\* a first batch with an entry whose Batch Control is not flagged.
C2_Witness ==
  /\ Done
  /\ \E k \in LinesOfKind("BatchControl"), k1 \in LinesOfKind("BatchControl") :
       /\ k1 < k
       /\ BatchesBefore(lines, k) = 2
       /\ CountOf(lines, 0, k1) > 0
       /\ HasDiag(k, MsgBatchCount)
       /\ ~HasDiag(k, MsgBatchHash) /\ ~HasDiag(k, MsgBatchDebit) /\ ~HasDiag(k, MsgBatchCredit)
       /\ ~HasDiag(k1, MsgBatchCount)

MsgFileBatches == "Batch Count does not match actual batch count"

MsgFileCount == "Total Entry/Addenda Count does not match actual count"

MsgFileHash == "File Entry Hash does not match calculated hash"

MsgFileDebit == "File Total Debit amount does not match actual"

MsgFileCredit == "File Total Credit amount does not match actual"

\* C3: at a File Control, each of batch count, total entry/addenda count,
\* file entry hash, total debit and total credit gets a mismatch diagnostic
\* if and only if the declared field differs from the value accumulated over
\* all the records before it (batch count: the number of Batch Headers,
\* nested or misplaced ones included); the file-level accumulators are never
\* reset: at every point of the scan they are the totals of all the lines
\* scanned so far.
C3_FileControlTotals ==
  /\ batchCount = BatchesBefore(lines, i)
  /\ totalEntryCount = CountOf(lines, 0, i - 1)
  /\ totalDebitAmount = DebitOf(lines, 0, i - 1)
  /\ totalCreditAmount = CreditOf(lines, 0, i - 1)
  /\ totalEntryHash = FullHashOf(lines, 0, i - 1)
  /\ Done =>
       \A k \in LinesOfKind("FileControl") :
         LET c == lines[k + 1]
         IN  /\ HasDiag(k, MsgFileBatches) <=> ~Declares(Cols(c, 1, 7), BatchesBefore(lines, k))
             /\ HasDiag(k, MsgFileCount) <=> ~Declares(Cols(c, 13, 21), CountOf(lines, 0, k - 1))
             /\ HasDiag(k, MsgFileHash) <=> Cols(c, 21, 31) # HashOf(lines, 0, k - 1)
             /\ HasDiag(k, MsgFileDebit) <=> ~Declares(Cols(c, 31, 43), DebitOf(lines, 0, k - 1))
             /\ HasDiag(k, MsgFileCredit) <=> ~Declares(Cols(c, 43, 55), CreditOf(lines, 0, k - 1))

\* A File Control after two batches, the first with an entry, is flagged for
\* its entry count only.
C3_Witness ==
  /\ Done
  /\ \E k \in LinesOfKind("FileControl"), k1 \in LinesOfKind("BatchControl") :
       /\ BatchesBefore(lines, k) = 2
       /\ BatchesBefore(lines, k1) = 1
       /\ CountOf(lines, 0, k1) > 0
       /\ HasDiag(k, MsgFileCount)
       /\ ~HasDiag(k, MsgFileBatches) /\ ~HasDiag(k, MsgFileHash)
       /\ ~HasDiag(k, MsgFileDebit) /\ ~HasDiag(k, MsgFileCredit)

\* C4: the entry hash is the exact sum of the 8-digit RDFI values of the
\* Entry Detail records with a valid RDFI (of the batch, of the file), and
\* the declared hash of a Batch Control or File Control is compared with that
\* sum modulo 10^10, zero-padded to 10 digits, also when the sum is 10^10 or
\* more.
C4_EntryHashModulo ==
  /\ totalEntryHash = FullHashOf(lines, 0, i - 1)
  /\ currentBatchEntryHash = FullHashOf(lines, HeaderBefore(lines, i) + 1, i - 1)
  /\ Done =>
       /\ \A k \in LinesOfKind("BatchControl") :
            ~HasDiag(k, MsgBatchHash)
              <=> Cols(lines[k + 1], 10, 20) = HashOf(lines, HeaderBefore(lines, k) + 1, k - 1)
       /\ \A k \in LinesOfKind("FileControl") :
            ~HasDiag(k, MsgFileHash) <=> Cols(lines[k + 1], 21, 31) = HashOf(lines, 0, k - 1)

\* The sum of a batch and of the file is 10^10 or more, and neither the
\* Batch Control nor the File Control, which declare it modulo 10^10, is
\* flagged.
C4_Witness ==
  /\ Done
  /\ \E k \in LinesOfKind("BatchControl"), f \in LinesOfKind("FileControl") :
       /\ HashWraps(lines, HeaderBefore(lines, k) + 1, k - 1)
       /\ HashWraps(lines, 0, f - 1)
       /\ Len(totalEntryHash) = 11
       /\ ~HasDiag(k, MsgBatchHash)
       /\ ~HasDiag(f, MsgFileHash)

MsgNested == "Nested Batch Header (type 5) without closing previous batch (type 8)"

MsgUnmatched == "Batch Control (type 8) appears without a matching Batch Header (type 5)"

\* C5: a Batch Header gets the nested-batch diagnostic if and only if a
\* batch is open when it is processed, and a Batch Control gets the 'without
\* a matching Batch Header' diagnostic if and only if no batch is open.
C5_BatchPairing ==
  Done =>
    /\ \A k \in LinesOfKind("BatchHeader") : HasDiag(k, MsgNested) <=> OpenBefore(lines, k)
    /\ \A k \in LinesOfKind("BatchControl") : HasDiag(k, MsgUnmatched) <=> ~OpenBefore(lines, k)

\* A file with a nested Batch Header, a Batch Header (not the first line)
\* that is not nested, and a Batch Control without an open batch.
C5_Witness ==
  /\ Done
  /\ \E k \in LinesOfKind("BatchHeader") : HasDiag(k, MsgNested)
  /\ \E k \in LinesOfKind("BatchHeader") : k > 0 /\ ~HasDiag(k, MsgNested)
  /\ \E k \in LinesOfKind("BatchControl") : HasDiag(k, MsgUnmatched)

MsgCheckDigit == "Invalid Check Digit"

\* C6: an Entry Detail whose columns [3,11) are 8 digits gets an 'Invalid
\* Check Digit' diagnostic if and only if its character at column 11 is not
\* the check digit of columns [3,11).
C6_CheckDigitDiagnostic ==
  Done =>
    \A k \in LinesOfKind("EntryDetail") :
      LET e == lines[k + 1]
      IN  HasRdfi(e) =>
            (HasDiag(k, MsgCheckDigit)
               <=> Cols(e, 11, 12) # <<DigitChar(CheckDigitOf(Cols(e, 3, 11)))>>)

\* One entry with the right check digit is accepted and one with a wrong
\* check digit is flagged.
C6_Witness ==
  /\ Done
  /\ \E k, m \in LinesOfKind("EntryDetail") :
       /\ HasRdfi(lines[k + 1]) /\ HasDiag(k, MsgCheckDigit)
       /\ HasRdfi(lines[m + 1]) /\ ~HasDiag(m, MsgCheckDigit)

\* C7: for 8 decimal digits d0..d7 calculateCheckDigit returns
\* (10 - ((3 d0 + 7 d1 + d2 + 3 d3 + 7 d4 + d5 + 3 d6 + 7 d7) mod 10)) mod 10,
\* a digit in 0..9, and 4 for 06100010; it is the digit that an 'Invalid
\* Check Digit' diagnostic names as expected.
C7_CheckDigitFormula ==
  /\ \A k \in LinesOfKind("EntryDetail") :
       LET r == Cols(lines[k + 1], 3, 11)
       IN  HasRdfi(lines[k + 1]) =>
             /\ calculateCheckDigit(r) = CheckDigitOf(r)
             /\ calculateCheckDigit(r) \in 0..9
             /\ r = Rdfi1 => calculateCheckDigit(r) = 4
  /\ \A d \in 1..Len(diags) :
       diags[d].message = MsgCheckDigit =>
         diags[d].args[1] = <<DigitChar(CheckDigitOf(Cols(lines[diags[d].line + 1], 3, 11)))>>

\* An entry for routing 06100010 with another check digit than 4 was scanned
\* and the diagnostic names 4.
C7_Witness ==
  /\ Done
  /\ \E d \in 1..Len(diags) :
       diags[d].message = MsgCheckDigit /\ diags[d].args = << <<"4">>, Rdfi1 >>

MsgIatCount == "IAT entries must have at least 07 addenda records"

\* Line k lies inside a batch whose SEC code is IAT.
InIatBatch(ls, k) == OpenBefore(ls, k) /\ SecOf(ls[HeaderBefore(ls, k) + 1]) = IAT

\* The entry declares an addenda count below 7.
DeclaresFewAddenda(e) ==
  Len(Cols(e, 15, 17)) = 2 /\ AllDigits(Cols(e, 15, 17)) /\ DigitsValue(Cols(e, 15, 17)) < 7

\* C8: an Entry Detail whose declared addenda count is below 7 gets the IAT
\* addenda-count diagnostic when it lies inside a batch whose SEC code is
\* IAT, and does not get it outside an IAT batch: inside a non-IAT batch,
\* after the Batch Control of the IAT batch, or before any batch.
C8_IatGating ==
  Done =>
    \A k \in LinesOfKind("EntryDetail") :
      DeclaresFewAddenda(lines[k + 1]) => (HasDiag(k, MsgIatCount) <=> InIatBatch(lines, k))

\* The number of Addenda records that follow line k before the next Entry
\* Detail or Batch Control.
AddendaFollowing(ls, k) ==
  LET stops == {m \in (k + 1)..(Len(ls) - 1) : Kind(ls[m + 1]) \in {"EntryDetail", "BatchControl"}}
      stop == IF stops = {} THEN Len(ls) ELSE CHOOSE m \in stops : \A n \in stops : m <= n
  IN  Cardinality({m \in (k + 1)..(stop - 1) : Kind(ls[m + 1]) = "Addenda"})

\* C9: in an IAT batch, an Entry Detail followed by fewer than 7 Addenda
\* records before the next Entry Detail or Batch Control gets exactly one
\* addenda-count diagnostic.
C9_AddendaPresence ==
  Done =>
    \A k \in LinesOfKind("EntryDetail") :
      (InIatBatch(lines, k) /\ AddendaFollowing(lines, k) < 7) => DiagCount(k, MsgIatCount) = 1

MsgMissingHeader == "Missing File Header (type 1) record"

MsgMissingControl == "Missing File Control (type 9) record"

AnyDiag(message) == \E d \in 1..Len(diags) : diags[d].message = message

HasContent == \E k \in 1..Len(lines) : Len(lines[k]) > 0

\* The last line of non-zero length.
LastNonBlank ==
  CHOOSE k \in 0..(Len(lines) - 1) :
    Len(lines[k + 1]) > 0 /\ \A m \in (k + 1)..(Len(lines) - 1) : Len(lines[m + 1]) = 0

\* The lines with a character that is not whitespace.
InkedLines == {k \in 0..(Len(lines) - 1) : \E c \in 1..Len(lines[k + 1]) : ~IsWhitespace(lines[k + 1][c])}

LastInked == CHOOSE k \in InkedLines : \A m \in InkedLines : k >= m

MsgShort == "Record length is less than required 94 characters"

MsgLong == "Record length exceeds 94 characters"

\* The lines the scan has passed.
Scanned == 0..(i - 1)

\* The lines that are records: neither blank (length 0) nor padding.
IsRecordLine(k) == LineKind(k) \notin {"Blank", "Padding"}

LengthDiagCount(k) == DiagCount(k, MsgShort) + DiagCount(k, MsgLong)

\* C11: every non-blank, non-padding record whose length differs from 94
\* yields exactly one length diagnostic, and every record of length exactly
\* 94 yields none, whatever its record type and the state of the scan.
C11_LengthDiagnostic ==
  \A k \in Scanned :
    IsRecordLine(k) =>
      LengthDiagCount(k) = (IF Len(lines[k + 1]) # 94 THEN 1 ELSE 0)

\* A scan has passed a record shorter than 94 characters and one longer
\* than 94 characters, of different record types, each with its diagnostic.
C11_Witness ==
  /\ Done
  /\ \E k, m \in Scanned :
       /\ IsRecordLine(k) /\ Len(lines[k + 1]) < 94 /\ DiagCount(k, MsgShort) = 1
       /\ IsRecordLine(m) /\ Len(lines[m + 1]) > 94 /\ DiagCount(m, MsgLong) = 1
       /\ LineKind(k) # LineKind(m)

\* vscode.DiagnosticSeverity, the encoding of AchDiagnostic.severity.
SeverityError == 0

SeverityWarning == 1

SeverityInformation == 2

SeverityHint == 3

\* C12: in the vscode.DiagnosticSeverity encoding (Error=0, Warning=1,
\* Information=2, Hint=3) a record shorter than 94 characters is reported
\* with Error severity and a record longer than 94 characters with Hint
\* severity.
C12_LengthSeverity ==
  \A d \in 1..Len(diags) :
    /\ diags[d].message = MsgShort => diags[d].severity = SeverityError
    /\ diags[d].message = MsgLong => diags[d].severity = SeverityHint

(***************************************************************************)
(* File Control as the final record.                                       *)
(***************************************************************************)
MsgNotFinal == "File Control should be the final record (excluding padding)"

\* C13 as stated: a File Control record yields the 'should be the final
\* record' diagnostic if and only if some later line of the input is neither
\* blank (of length 0) nor a padding line.
C13_FinalRecordByLength ==
  \A k \in Scanned :
    LineKind(k) = "FileControl" =>
      (HasDiag(k, MsgNotFinal) <=>
         \E j \in (k + 1)..(Len(lines) - 1) : LineKind(j) \notin {"Blank", "Padding"})

\* C13 (amended): a File Control record yields the 'should be the final
\* record' diagnostic, once, if and only if some later line of the input has
\* a character that is not whitespace and is not a padding line; padding
\* lines, blank lines and lines of whitespace after it never trigger it.
C13_FinalRecordByContent ==
  \A k \in Scanned :
    LineKind(k) = "FileControl" =>
      DiagCount(k, MsgNotFinal) =
        (IF \E j \in (k + 1)..(Len(lines) - 1) : j \in InkedLines /\ LineKind(j) # "Padding"
         THEN 1 ELSE 0)

\* A scan has passed a File Control followed by padding lines and a second
\* File Control, which has the diagnostic, and that second File Control,
\* followed by a line of spaces only, which has not.
C13_Witness ==
  /\ Done
  /\ \E k, m \in LinesOfKind("FileControl") :
       /\ k < m
       /\ HasDiag(k, MsgNotFinal)
       /\ \E j \in (k + 1)..(m - 1) : LineKind(j) = "Padding"
       /\ ~HasDiag(m, MsgNotFinal)
       /\ m + 1 < Len(lines)
       /\ \A j \in (m + 1)..(Len(lines) - 1) : j \notin InkedLines

(***************************************************************************)
(* Block count.                                                            *)
(***************************************************************************)
MsgBlockCount == "Block Count does not match calculated count"

MismatchMessages ==
  {MsgBatchCount, MsgBatchHash, MsgBatchDebit, MsgBatchCredit,
   MsgFileBatches, MsgFileCount, MsgFileHash, MsgFileDebit, MsgFileCredit}

\* In the severity encoding a larger number is a less severe level.
LessSevere(a, b) == a > b

\* The least b with 10 * b >= n.
CeilTenth(n) == CHOOSE b \in 0..n : b * 10 >= n /\ (b - 1) * 10 < n

\* The lines of length greater than 0.
NonEmptyLines(ls) == Cardinality({k \in 1..Len(ls) : Len(ls[k]) > 0})

BlockCountSeverity ==
  \A d, e \in 1..Len(diags) :
    (diags[d].message = MsgBlockCount /\ diags[e].message \in MismatchMessages)
      => LessSevere(diags[d].severity, diags[e].severity)

\* C14 as stated: at File Control the expected block count is ceil(N / 10)
\* where N is the number of non-blank lines (lines of length greater than 0)
\* of the whole input, padding lines included; a block-count diagnostic is
\* emitted if and only if the declared block-count field differs from it,
\* and it is strictly less severe than the count, hash and amount mismatch
\* diagnostics.
C14_BlockCountByLength ==
  /\ \A k \in Scanned :
       LineKind(k) = "FileControl" =>
         (HasDiag(k, MsgBlockCount)
            <=> ~Declares(Cols(lines[k + 1], 7, 13), CeilTenth(NonEmptyLines(lines))))
  /\ BlockCountSeverity

\* C14 (amended): at File Control the expected block count is ceil(N / 10)
\* where N is the number of lines of the whole input that have a character
\* that is not whitespace, padding lines included; one block-count
\* diagnostic, naming that count, is emitted if and only if the declared
\* block-count field differs from it, and it is strictly less severe than
\* the count, hash and amount mismatch diagnostics.
C14_BlockCountByContent ==
  /\ \A k \in Scanned :
       LineKind(k) = "FileControl" =>
         /\ DiagCount(k, MsgBlockCount) =
              (IF Declares(Cols(lines[k + 1], 7, 13), BlocksOf(lines)) THEN 0 ELSE 1)
         /\ \A d \in 1..Len(diags) :
              (diags[d].line = k /\ diags[d].message = MsgBlockCount)
                => diags[d].args[2] = NatToString(BlocksOf(lines))
  /\ BlockCountSeverity

\* A scan has passed a File Control that declares one block in a file of
\* ten lines with content, padding lines among them, and one line of spaces:
\* there is no block-count diagnostic, and there is a mismatch diagnostic of
\* another field to compare severities with.
C14_Witness ==
  /\ Done
  /\ NonBlankLines(lines) = 10
  /\ NonEmptyLines(lines) = 11
  /\ LinesOfKind("Padding") # {}
  /\ \E k \in LinesOfKind("FileControl") :
       /\ Declares(Cols(lines[k + 1], 7, 13), 1)
       /\ ~HasDiag(k, MsgBlockCount)
  /\ \E k \in LinesOfKind("FileControl") : HasDiag(k, MsgBlockCount)
  /\ \E k \in LinesOfKind("FileControl") : HasDiag(k, MsgFileBatches)

(***************************************************************************)
(* Termination.                                                            *)
(***************************************************************************)
MsgRouting == "Receiving DFI Identification must be 8 digits"

\* The steps the run has left: the lines to scan, the final checks and the
\* summary.
StepsLeft ==
  (Len(lines) - i) + (IF pc = "scan" THEN 2 ELSE IF pc = "done" THEN 1 ELSE 0)

\* Some step of the scan applies: the line at i is blank, padding or a
\* record whose first character selects a case of the switch or none, or the
\* lines are exhausted and the final checks apply.
CanStep ==
  \/ /\ i < Len(lines)
     /\ \/ Len(line) = 0
        \/ isPaddingRow(line)
        \/ firstChar \in {<<"1">>, <<"5">>, <<"6">>, <<"7">>, <<"8">>, <<"9">>}
        \/ firstChar \notin recordTypes
  \/ i = Len(lines)

\* C15: for every input parseAch terminates normally and returns a list of
\* diagnostics: no step raises an exception, a scan that has not returned
\* can always take a step, every step brings the return nearer, and the
\* empty text yields the empty list.
C15_TerminatesNormally ==
  /\ [](pc # "threw")
  /\ [](pc = "scan" => CanStep)
  /\ [][StepsLeft' < StepsLeft /\ StepsLeft' >= 0]_vars
  /\ []((Done /\ lines = << << >> >>) => diags = << >>)
  /\ [](Done => \A d \in 1..Len(diags) : diags[d].severity \in 0..3)

\* parseAch has returned for an input with an Entry Detail whose routing
\* field is eight characters that are not all digits, which it reported.
C15_Witness ==
  /\ Done
  /\ \E k \in LinesOfKind("EntryDetail") :
       /\ Len(Cols(lines[k + 1], 3, 11)) = 8
       /\ ~AllDigits(Cols(lines[k + 1], 3, 11))
       /\ HasDiag(k, MsgRouting)

(***************************************************************************)
(* The lines that diagnostics refer to.                                    *)
(***************************************************************************)
\* C16: every diagnostic of parseAch, the 'Missing File Header' and
\* 'Missing File Control' of the final checks included, has a line index k
\* with 0 <= k < number of lines of the input.
C16_LineIndexInRange ==
  \A d \in 1..Len(diags) : diags[d].line >= 0 /\ diags[d].line < Len(lines)

\* parseAch has returned both final diagnostics and a diagnostic of the
\* scan for an input whose last line with content is neither its first nor
\* its last line.
C16_Witness ==
  /\ Done
  /\ AnyDiag(MsgMissingHeader)
  /\ \E d \in 1..Len(diags) :
       /\ diags[d].message = MsgMissingControl
       /\ diags[d].line > 0
       /\ diags[d].line < Len(lines) - 1
  /\ \E d \in 1..Len(diags) : diags[d].message \notin {MsgMissingHeader, MsgMissingControl}

(***************************************************************************)
(* Unknown record types.                                                   *)
(***************************************************************************)
MsgUnknown == "Unknown record type"

TypeCharacters == {"1", "5", "6", "7", "8", "9"}

\* The diagnostics at line k.
DiagsAt(k) == {d \in 1..Len(diags) : diags[d].line = k}

\* C17: every non-blank, non-padding line whose first character is not one
\* of 1, 5, 6, 7, 8, 9 yields exactly one 'Unknown record type' diagnostic
\* naming that character, in addition to any length diagnostic for the same
\* line, and a line that begins with one of them yields none; a single
\* 94-character line with leading '2' yields exactly that diagnostic plus
\* 'Missing File Header' and 'Missing File Control'.
C17_UnknownRecordType ==
  /\ \A k \in Scanned :
       IsRecordLine(k) =>
         IF lines[k + 1][1] \in TypeCharacters
         THEN DiagCount(k, MsgUnknown) = 0
         ELSE /\ DiagCount(k, MsgUnknown) = 1
              /\ \A d \in DiagsAt(k) :
                   diags[d].message = MsgUnknown => diags[d].args = << <<lines[k + 1][1]>> >>
              /\ LengthDiagCount(k) = (IF Len(lines[k + 1]) # 94 THEN 1 ELSE 0)
  /\ (Done /\ lines = << <<"2">> \o [n \in 1..93 |-> "X"] >>) =>
       /\ Len(diags) = 3
       /\ diags[1].message = MsgUnknown /\ diags[1].args = << <<"2">> >>
       /\ diags[2].message = MsgMissingHeader
       /\ diags[3].message = MsgMissingControl

\* parseAch has returned for an input with a record of unknown type and of
\* the wrong length after another record: the line has its 'Unknown record
\* type' diagnostic and its length diagnostic.
C17_Witness ==
  /\ Done
  /\ \E k \in Scanned :
       /\ k > 0
       /\ IsRecordLine(k)
       /\ lines[k + 1][1] \notin TypeCharacters
       /\ Len(lines[k + 1]) # 94
       /\ DiagCount(k, MsgUnknown) = 1
       /\ LengthDiagCount(k) = 1

(***************************************************************************)
(* Inputs without File Header and File Control.                            *)
(***************************************************************************)
NoFileBoundary == LinesOfKind("FileHeader") = {} /\ LinesOfKind("FileControl") = {}

MessageCount(message) ==
  Cardinality({d \in 1..Len(diags) : diags[d].message = message})

\* C18 as stated: for every input text that contains no File Header and no
\* File Control record, parseAch returns the 'Missing File Header' and the
\* 'Missing File Control' diagnostic and no other diagnostic.
C18_OnlyMissingDiagnostics ==
  (Done /\ NoFileBoundary) =>
    /\ Len(diags) = 2
    /\ {diags[d].message : d \in 1..Len(diags)} = {MsgMissingHeader, MsgMissingControl}

\* C18 (amended): for every input text that contains no File Header and no
\* File Control record and whose last line with a character that is not
\* whitespace exists and is not a padding line, parseAch returns the
\* 'Missing File Header' diagnostic, at line 0, and the 'Missing File
\* Control' diagnostic, at that last line, once each and as the last two
\* diagnostics of the list, after the diagnostics of the scan, of which
\* there is at least one.
C18_MissingAfterScanDiagnostics ==
  (Done /\ NoFileBoundary /\ InkedLines # {} /\ LineKind(LastInked) # "Padding") =>
    /\ Len(diags) >= 3
    /\ diags[Len(diags) - 1].message = MsgMissingHeader
    /\ diags[Len(diags) - 1].line = 0
    /\ diags[Len(diags)].message = MsgMissingControl
    /\ diags[Len(diags)].line = LastInked
    /\ MessageCount(MsgMissingHeader) = 1
    /\ MessageCount(MsgMissingControl) = 1

\* parseAch has returned for an input of a Batch Header and a Batch Control
\* without File Header and File Control: the two final diagnostics follow
\* those of the scan.
C18_Witness ==
  /\ Done
  /\ NoFileBoundary
  /\ LinesOfKind("BatchHeader") # {}
  /\ LinesOfKind("BatchControl") # {}
  /\ Len(diags) >= 3
  /\ diags[Len(diags) - 1].message = MsgMissingHeader
  /\ diags[Len(diags)].message = MsgMissingControl

(***************************************************************************)
(* Blank lines.                                                            *)
(***************************************************************************)
MsgBlank == "Unexpected blank line in ACH file"

\* C19: a blank (zero-length) line yields a diagnostic if and only if it
\* occurs before the last non-blank line of the input; blank lines after
\* the last non-blank line yield none.
C19_BlankLineDiagnostic ==
  \A k \in Scanned :
    LineKind(k) = "Blank" =>
      (DiagsAt(k) # {} <=> \E m \in (k + 1)..(Len(lines) - 1) : LineKind(m) # "Blank")

(***************************************************************************)
(* Padding lines.                                                          *)
(***************************************************************************)
\* C20: a padding line (exactly 94 characters, all '9') never produces a
\* diagnostic of its own and leaves the whole scanner state unchanged:
\* seenFileHeader, openBatch, the batch header snapshot and every per-batch
\* and per-file accumulator are the same after the line as before it.  The
\* only diagnostic that can sit on a padding line is the 'Missing File
\* Header' of the final checks, which is always put at line 0.
C20_PaddingFrame ==
  /\ [](\A d \in 1..Len(diags) :
          diags[d].message # MsgMissingHeader => LineKind(diags[d].line) # "Padding")
  /\ [][(pc = "scan" /\ i < Len(lines) /\ LineKind(i) = "Padding") =>
         /\ i' = i + 1
         /\ pc' = "scan"
         /\ diags' = diags
         /\ UNCHANGED <<seenFileHeader, openBatch, batchCount, totalEntryCount,
                        totalDebitAmount, totalCreditAmount, totalEntryHash>>
         /\ UNCHANGED <<currentBatchHeaderLine, currentBatchEntryCount,
                        currentBatchDebitAmount, currentBatchCreditAmount,
                        currentBatchEntryHash, currentBatchServiceClass, currentBatchId,
                        currentBatchOdfi, currentBatchNumber, currentBatchSec>>]_vars

\* The scan has passed a padding line inside an open batch that has an
\* entry, after a File Header: the state that the line left unchanged is
\* not the initial one.
C20_Witness ==
  /\ i > 0
  /\ LineKind(i - 1) = "Padding"
  /\ seenFileHeader
  /\ openBatch
  /\ currentBatchEntryCount > 0
  /\ totalEntryHash # BigZero
  /\ \A d \in 1..Len(diags) : diags[d].line # i - 1

(***************************************************************************)
(* The summary.                                                            *)
(***************************************************************************)
Summarized == pc = "summarized"

\* The lines (0-based) that are not blank and start with the character c.
StartingWith(c) == {k \in 0..(Len(lines) - 1) : Len(lines[k + 1]) > 0 /\ lines[k + 1][1] = c}

\* A complete file of one batch whose only entry is a credit.
OneCreditEntryFile ==
  /\ WellFormed(lines)
  /\ Cardinality(LinesOfKind("BatchHeader")) = 1
  /\ Cardinality(LinesOfKind("EntryDetail")) = 1
  /\ \A k \in LinesOfKind("EntryDetail") : IsCredit(lines[k + 1])

\* C21: parseAchSummary returns as batches the number of non-blank lines
\* starting with '5', as entries the number of non-blank lines starting
\* with '6', and as netAmount totalCredit - totalDebit, for every input;
\* for a complete file of one batch and one credit entry it returns
\* batches 1, entries 1, totalDebit 0 and totalCredit = netAmount = the
\* amount of the entry (in cents here).
C21_SummaryCounts ==
  Summarized =>
    /\ summary.batches = Cardinality(StartingWith("5"))
    /\ summary.entries = Cardinality(StartingWith("6"))
    /\ summary.netAmount = summary.totalCredit - summary.totalDebit
    /\ OneCreditEntryFile =>
         \A k \in LinesOfKind("EntryDetail") :
           /\ summary.batches = 1 /\ summary.entries = 1 /\ summary.totalDebit = 0
           /\ summary.totalCredit = AmountOf(lines[k + 1])
           /\ summary.netAmount = AmountOf(lines[k + 1])

\* The summary of a complete file of one batch and one credit entry of a
\* positive amount has been computed.
C21_Witness ==
  /\ Summarized
  /\ OneCreditEntryFile
  /\ summary.totalCredit > 0

\* C22: for every input the credit and debit totals of parseAchSummary (in
\* cents) equal the file-level credit and debit sums that parseAch
\* accumulates over the same text.
C22_SummaryTotalsAgree ==
  Summarized =>
    /\ summary.totalCredit = totalCreditAmount
    /\ summary.totalDebit = totalDebitAmount

(***************************************************************************)
(* The field layouts.                                                      *)
(***************************************************************************)
Answered == pc = "answered"

IatAddendaTypes == { <<"1", DigitChar(d)>> : d \in 0..6 }

\* The layout the specification names for a query.
LayoutFor(q) ==
  IF q.secCode = <<"I", "A", "T">> /\ q.recordType \in { <<"5">>, <<"6">> }
  THEN iatRecordFields(q.recordType)
  ELSE IF q.secCode = <<"I", "A", "T">> /\ q.recordType = <<"7">>
            /\ Cols(q.line, 1, 3) \in IatAddendaTypes
  THEN addendaIATFields(Cols(q.line, 1, 3))
  ELSE recordFields(q.recordType)

\* The descriptors of a layout that cover a column.
Covering(layout, c) == {k \in 1..Len(layout) : layout[k].start <= c /\ c < layout[k].end}

\* C23: getFieldsForRecord selects the layout by priority: under IAT the
\* IAT layout for record types 5 and 6; under IAT for record type 7 the IAT
\* addenda layout of the code at columns [1,3) if it is one of 10..16 and
\* the generic Addenda layout otherwise; in every other case the domestic
\* layout of the record type.
C23_LayoutPriority ==
  /\ getFieldsForRecord(query.recordType, query.line, query.secCode) = LayoutFor(query)
  /\ Answered =>
       IF Covering(LayoutFor(query), query.position) = {} THEN answer = undefined
       ELSE \E k \in Covering(LayoutFor(query), query.position) : answer = LayoutFor(query)[k]
  /\ \A t \in IatAddendaTypes : addendaIATFields(t) # NoFields
  /\ iatRecordFields(<<"5">>) # recordFields(<<"5">>)
  /\ iatRecordFields(<<"6">>) # recordFields(<<"6">>)
  /\ \A t \in IatAddendaTypes : addendaIATFields(t) # recordFields(<<"7">>)

\* A column of an IAT addenda of type 13 was looked up under IAT and found
\* in a field that the generic Addenda layout does not have.
C23_Witness ==
  /\ Answered
  /\ query.secCode = <<"I", "A", "T">> /\ query.recordType = <<"7">>
  /\ Cols(query.line, 1, 3) = <<"1", "3">>
  /\ answer.name = "ODFI Name"

KnownRecordTypes == { <<"1">>, <<"5">>, <<"6">>, <<"7">>, <<"8">>, <<"9">> }

\* The descriptors of a layout lie within [0,94), are pairwise disjoint
\* and together cover every column of [0,94).
WellLaid(layout) ==
  /\ \A k \in 1..Len(layout) :
       0 <= layout[k].start /\ layout[k].start < layout[k].end /\ layout[k].end <= 94
  /\ \A j, k \in 1..Len(layout) :
       j # k => (layout[j].end <= layout[k].start \/ layout[k].end <= layout[j].start)
  /\ \A c \in 0..93 : Covering(layout, c) # {}

\* C24: every layout of the registry (domestic 1/5/6/7/8/9, IAT 5/6, IAT
\* addenda 10..16) has descriptors with 0 <= start < end <= 94 that are
\* pairwise disjoint and cover every column of [0,94); getFieldAtPosition
\* returns exactly one descriptor for each column 0..93 of a known record
\* type, and none for a column >= 94 or an unknown record type.  (Each
\* layout is the layout of some query at column 0, where it is examined.)
C24_LayoutsCoverRecord ==
  /\ (query.position = 0 /\ query.recordType \in KnownRecordTypes) => WellLaid(LayoutFor(query))
  /\ (Answered /\ query.recordType \in KnownRecordTypes /\ query.position <= 93) =>
       /\ answer # undefined
       /\ answer.start <= query.position /\ query.position < answer.end
       /\ Cardinality(Covering(LayoutFor(query), query.position)) = 1
  /\ (Answered /\ (query.recordType \notin KnownRecordTypes \/ query.position >= 94)) =>
       answer = undefined

\* The last column of an IAT Entry Detail was looked up and found in the
\* Trace Number.
C24_Witness ==
  /\ Answered
  /\ query.secCode = <<"I", "A", "T">> /\ query.recordType = <<"6">>
  /\ query.position = 93
  /\ answer = [start |-> 79, end |-> 94, name |-> "Trace Number"]

(***************************************************************************)
(* Routing numbers.                                                        *)
(***************************************************************************)
\* The ODFI of a Batch Header is valid when columns [79, 87) are 8 digits.
HasOdfi(h) == Len(Cols(h, 79, 87)) = 8 /\ AllDigits(Cols(h, 79, 87))

\* A diagnostic on columns [a, b) of line k.
HasDiagOn(k, a, b) ==
  \E d \in 1..Len(diags) : diags[d].line = k /\ diags[d].start = a /\ diags[d].end = b

\* C25: the routing numbers of both the RDFI and the ODFI are validated: an
\* Entry Detail whose Receiving DFI Identification is not a valid routing
\* number and a Batch Header whose Originating DFI Identification (columns
\* [79,87)) is not a valid routing number each yield a diagnostic.
C25_RoutingValidated ==
  \A k \in Scanned :
    /\ (LineKind(k) = "EntryDetail" /\ ~HasRdfi(lines[k + 1])) => HasDiagOn(k, 3, 11)
    /\ (LineKind(k) = "BatchHeader" /\ ~HasOdfi(lines[k + 1])) => HasDiagOn(k, 79, 87)

(***************************************************************************)
(* Line endings.                                                           *)
(***************************************************************************)
\* The text with each line feed replaced by carriage return and line feed.
RECURSIVE ToCrLf(_)
ToCrLf(text) ==
  IF Len(text) = 0 THEN << >>
  ELSE IF Len(text) = 1 THEN (IF text[1] = "\n" THEN <<"\r", "\n">> ELSE text)
  ELSE ToCrLf(SubSeq(text, 1, Len(text) \div 2))
         \o ToCrLf(SubSeq(text, Len(text) \div 2 + 1, Len(text)))

\* The text whose split the lines are, with line feeds.
TextOf(ls) == JoinLines(ls)

NoCarriageReturn(text) == \A k \in 1..Len(text) : text[k] # "\r"

\* C26: splitting on CRLF and on LF is equivalent: for a text without
\* carriage returns, the text with each LF replaced by CRLF splits into the
\* same lines, which are all that parseAch and parseAchSummary read of the
\* text, so the diagnostics and the summary are the same.
C26_CrLfSplitsAlike ==
  (Summarized /\ NoCarriageReturn(TextOf(lines))) =>
    /\ SplitLines(TextOf(lines)) = lines
    /\ SplitLines(ToCrLf(TextOf(lines))) = lines

\* Both passes have run over a text of several lines, with entries, and
\* reported something.
C26_Witness ==
  /\ Summarized
  /\ NoCarriageReturn(TextOf(lines))
  /\ Len(lines) >= 3
  /\ diags # << >>
  /\ summary.entries > 0

(***************************************************************************)
(* The order of the records.                                               *)
(***************************************************************************)
MsgMultipleHeader == "Multiple File Header records (type 1) found"

MsgNotFirst == "File Header (type 1) should be the first record"

\* A File Header lies among the lines before line k.
FileHeaderBefore(k) == \E h \in 0..(k - 1) : LineKind(h) = "FileHeader"

MsgHeaderBeforeFile == "Batch Header (type 5) appears before File Header (type 1)"

MsgControlBeforeFile == "File Control (type 9) appears before File Header"

MsgStillOpen == "File Control (type 9) appears while a batch is still open"

\* C28: a Batch Header or a File Control processed before any File Header
\* yields the 'before File Header' diagnostic (and none otherwise), a File
\* Control processed while a batch is open yields the 'batch is still open'
\* diagnostic (and none otherwise); a File Control changes neither
\* seenFileHeader nor openBatch.
C28_BeforeHeaderAndStillOpen ==
  /\ [](\A k \in Scanned :
          /\ LineKind(k) = "BatchHeader" =>
               DiagCount(k, MsgHeaderBeforeFile) = (IF FileHeaderBefore(k) THEN 0 ELSE 1)
          /\ LineKind(k) = "FileControl" =>
               /\ DiagCount(k, MsgControlBeforeFile) = (IF FileHeaderBefore(k) THEN 0 ELSE 1)
               /\ DiagCount(k, MsgStillOpen) = (IF OpenBefore(lines, k) THEN 1 ELSE 0))
  /\ [][(pc = "scan" /\ i < Len(lines) /\ LineKind(i) = "FileControl") =>
         (i' = i + 1 /\ seenFileHeader' = seenFileHeader /\ openBatch' = openBatch)]_vars

\* The scan has passed a File Control that came before any File Header
\* while a batch was open: it got both diagnostics and the batch is still
\* open.
C28_Witness ==
  \E k \in Scanned :
    /\ LineKind(k) = "FileControl" /\ i = k + 1
    /\ HasDiag(k, MsgControlBeforeFile) /\ HasDiag(k, MsgStillOpen)
    /\ \E h \in 0..(k - 1) : LineKind(h) = "BatchHeader" /\ HasDiag(h, MsgHeaderBeforeFile)
    /\ openBatch /\ ~seenFileHeader

MsgEntryOutside == "Entry Detail (type 6) appears outside of an open batch"

MsgAddendaOutside == "Addenda (type 7) appears outside of an open batch"

\* C29: an Entry Detail or Addenda processed while no batch is open yields
\* the 'outside of an open batch' diagnostic (and none otherwise), and in
\* every case, batch open or not, it increments both the per-batch and the
\* per-file entry/addenda count by exactly one.
C29_EntriesCountedEverywhere ==
  /\ [](\A k \in Scanned :
          /\ LineKind(k) = "EntryDetail" =>
               DiagCount(k, MsgEntryOutside) = (IF OpenBefore(lines, k) THEN 0 ELSE 1)
          /\ LineKind(k) = "Addenda" =>
               DiagCount(k, MsgAddendaOutside) = (IF OpenBefore(lines, k) THEN 0 ELSE 1))
  /\ [][(pc = "scan" /\ i < Len(lines) /\ LineKind(i) \in {"EntryDetail", "Addenda"}) =>
         /\ i' = i + 1
         /\ currentBatchEntryCount' = currentBatchEntryCount + 1
         /\ totalEntryCount' = totalEntryCount + 1]_vars

\* The scan has passed an Entry Detail and an Addenda outside of any batch:
\* each got its diagnostic and both counts stand at two.
C29_Witness ==
  /\ i = 2
  /\ LineKind(0) = "EntryDetail" /\ HasDiag(0, MsgEntryOutside)
  /\ LineKind(1) = "Addenda" /\ HasDiag(1, MsgAddendaOutside)
  /\ currentBatchEntryCount = 2 /\ totalEntryCount = 2

(***************************************************************************)
(* The amount of an entry.                                                 *)
(***************************************************************************)
MsgAmount == "Amount must be numeric"

\* The amount field of an entry is ten decimal digits.
TenDigitAmount(e) == Len(Cols(e, 29, 39)) = 10 /\ AllDigits(Cols(e, 29, 39))

\* C30: an Entry Detail whose 10-character amount field (columns [29,39))
\* is not entirely decimal digits yields the 'Amount must be numeric'
\* diagnostic and adds nothing to any debit or credit sum; an amount field
\* of 10 digits yields no amount diagnostic.
C30_AmountAllDigits ==
  /\ [](\A k \in Scanned :
          (LineKind(k) = "EntryDetail" /\ Len(lines[k + 1]) >= 39) =>
            (HasDiag(k, MsgAmount) <=> ~TenDigitAmount(lines[k + 1])))
  /\ [][(/\ pc = "scan" /\ i < Len(lines) /\ LineKind(i) = "EntryDetail"
          /\ Len(lines[i + 1]) >= 39 /\ ~TenDigitAmount(lines[i + 1])) =>
         UNCHANGED <<totalDebitAmount, totalCreditAmount, currentBatchDebitAmount,
                     currentBatchCreditAmount>>]_vars

\* The sums of one kind grow by n and the sums of the other kind stay.
AddsToCredit(n) ==
  /\ currentBatchCreditAmount' = currentBatchCreditAmount + n
  /\ totalCreditAmount' = totalCreditAmount + n
  /\ UNCHANGED <<currentBatchDebitAmount, totalDebitAmount>>

AddsToDebit(n) ==
  /\ currentBatchDebitAmount' = currentBatchDebitAmount + n
  /\ totalDebitAmount' = totalDebitAmount + n
  /\ UNCHANGED <<currentBatchCreditAmount, totalCreditAmount>>

\* The scan is at an Entry Detail whose amount field is a number.
AtNumericEntry ==
  /\ pc = "scan" /\ i < Len(lines)
  /\ LineKind(i) = "EntryDetail" /\ HasAmount(lines[i + 1])

\* C31: every Entry Detail with a numeric amount adds that amount to
\* exactly one of the credit sum or the debit sum, at the batch level and
\* at the file level: credit when the second transaction-code character is
\* 0-4, debit when it is 5-9; it never adds to both kinds.
C31_EveryAmountRouted ==
  [][AtNumericEntry =>
       \/ IsCredit(lines[i + 1]) /\ AddsToCredit(AmountOf(lines[i + 1]))
       \/ IsDebit(lines[i + 1]) /\ AddsToDebit(AmountOf(lines[i + 1]))]_vars

\* C31, amended: the same for every Entry Detail with a numeric amount
\* whose second transaction-code character is a digit; with any other
\* second character the amount is added to no sum.
C31_DigitCodeAmountRouted ==
  [][AtNumericEntry =>
       IF IsCredit(lines[i + 1]) THEN AddsToCredit(AmountOf(lines[i + 1]))
       ELSE IF IsDebit(lines[i + 1]) THEN AddsToDebit(AmountOf(lines[i + 1]))
       ELSE UNCHANGED <<currentBatchCreditAmount, totalCreditAmount,
                        currentBatchDebitAmount, totalDebitAmount>>]_vars

\* The scan has passed a credit and a debit of one batch: each amount went
\* to the sums of its kind only.
C31_Witness ==
  /\ openBatch
  /\ currentBatchCreditAmount > 0 /\ currentBatchDebitAmount > 0
  /\ currentBatchCreditAmount # currentBatchDebitAmount
  /\ totalCreditAmount = currentBatchCreditAmount
  /\ totalDebitAmount = currentBatchDebitAmount

(***************************************************************************)
(* The cross-check of a Batch Control against its Batch Header.            *)
(***************************************************************************)
MsgCrossService == "Service Class Code matches Batch Header"

MsgCrossCompany == "Company Identification matches Batch Header"

MsgCrossOdfi == "Originating DFI Identification matches Batch Header"

MsgCrossNumber == "Batch Number matches Batch Header"

\* Columns [a, b) of the most recent Batch Header before line k; empty when
\* there is none.
HeaderCols(k, a, b) ==
  IF HeaderBefore(lines, k) < 0 THEN << >> ELSE Cols(lines[HeaderBefore(lines, k) + 1], a, b)

\* The diagnostics of line k with the message that name the value.
NamingCount(k, message, value) ==
  Cardinality({d \in DiagsAt(k) : diags[d].message = message /\ diags[d].args = <<value>>})

\* Line k has one diagnostic with the message, naming the value, if the
\* field differs from the value, and none with the message if not.
CrossChecked(k, message, field, value) ==
  /\ DiagCount(k, message) = (IF field # value THEN 1 ELSE 0)
  /\ NamingCount(k, message, value) = DiagCount(k, message)

\* C32: at a Batch Control, for each of service class code, company
\* identification, ODFI identification and batch number, a cross-check
\* diagnostic naming the Batch Header's value is emitted if and only if the
\* field of the Batch Control differs from the value of the most recent
\* Batch Header (the empty value when there was none).
C32_CrossCheck ==
  \A k \in Scanned :
    LineKind(k) = "BatchControl" =>
      LET c == lines[k + 1]
      IN  /\ CrossChecked(k, MsgCrossService, Cols(c, 1, 4), HeaderCols(k, 1, 4))
          /\ CrossChecked(k, MsgCrossCompany, Cols(c, 44, 54), HeaderCols(k, 40, 50))
          /\ CrossChecked(k, MsgCrossOdfi, Cols(c, 79, 87), HeaderCols(k, 79, 87))
          /\ CrossChecked(k, MsgCrossNumber, Cols(c, 87, 94), HeaderCols(k, 87, 94))

\* The scan has passed a Batch Control whose service class alone differs
\* from its Batch Header's.
C32_Witness ==
  \E k \in Scanned :
    /\ LineKind(k) = "BatchControl" /\ HeaderBefore(lines, k) >= 0
    /\ HasDiag(k, MsgCrossService)
    /\ ~HasDiag(k, MsgCrossCompany) /\ ~HasDiag(k, MsgCrossOdfi) /\ ~HasDiag(k, MsgCrossNumber)

\* The line of the most recent Batch Header or Batch Control before line
\* k, or -1.
BoundaryBefore(k) ==
  LET bs == {b \in 0..(k - 1) : LineKind(b) \in {"BatchHeader", "BatchControl"}}
  IN  IF bs = {} THEN 0 - 1 ELSE CHOOSE b \in bs : \A m \in bs : b >= m

\* C33: when a Batch Control is processed the accumulator and the snapshot
\* of the current batch are consumed and discarded: a Batch Control that
\* follows it before the next Batch Header is not reconciled against the
\* closed batch, that is, its four header fields are checked against the
\* empty snapshot and its count against the records since the closing
\* Batch Control.
C33_ClosedBatchDiscarded ==
  \A k \in Scanned :
    (/\ LineKind(k) = "BatchControl"
     /\ BoundaryBefore(k) >= 0 /\ LineKind(BoundaryBefore(k)) = "BatchControl") =>
      LET c == lines[k + 1]
      IN  /\ CrossChecked(k, MsgCrossService, Cols(c, 1, 4), << >>)
          /\ CrossChecked(k, MsgCrossCompany, Cols(c, 44, 54), << >>)
          /\ CrossChecked(k, MsgCrossOdfi, Cols(c, 79, 87), << >>)
          /\ CrossChecked(k, MsgCrossNumber, Cols(c, 87, 94), << >>)
          /\ HasDiag(k, MsgBatchCount) <=>
               ~Declares(Cols(c, 4, 10), CountOf(lines, BoundaryBefore(k) + 1, k - 1))

(***************************************************************************)
(* The order of the diagnostics.                                           *)
(***************************************************************************)
IsMissing(d) == diags[d].message \in {MsgMissingHeader, MsgMissingControl}

\* C34: the diagnostics of the scan stand in the returned list in
\* non-decreasing order of line index, each on a line already scanned; no
\* step drops, merges or reorders a diagnostic already in the list; and the
\* 'Missing File Header' / 'Missing File Control' diagnostics of the final
\* checks come after all diagnostics of the scan.
C34_EmissionOrder ==
  /\ [](\A d, e \in 1..Len(diags) :
          d < e => /\ IsMissing(d) => IsMissing(e)
                   /\ ~IsMissing(e) => diags[d].line <= diags[e].line)
  /\ [](pc = "scan" => \A d \in 1..Len(diags) : ~IsMissing(d) /\ diags[d].line < i)
  /\ [][/\ Len(diags') >= Len(diags)
         /\ SubSeq(diags', 1, Len(diags)) = diags
         /\ \A d \in (Len(diags) + 1)..Len(diags') :
              IF pc = "scan" /\ i < Len(lines) THEN diags'[d].line = i
              ELSE diags'[d].message \in {MsgMissingHeader, MsgMissingControl}]_vars

\* parseAch has returned a list with two diagnostics on the same columns of
\* one line, diagnostics of a later line, and both final diagnostics at
\* the end, the first of them for line 0.
C34_Witness ==
  /\ Done
  /\ Len(diags) >= 5
  /\ diags[Len(diags) - 1].message = MsgMissingHeader
  /\ diags[Len(diags)].message = MsgMissingControl
  /\ diags[Len(diags) - 2].line > 0
  /\ \E d \in 1..(Len(diags) - 3) :
       /\ diags[d].line = diags[d + 1].line
       /\ diags[d].start = diags[d + 1].start /\ diags[d].end = diags[d + 1].end
       /\ diags[d].line < diags[Len(diags) - 2].line

(***************************************************************************)
(* The SEC code of a hover.                                                *)
(***************************************************************************)
Hovered == pc = "hovered"

\* A lookup was made for a record of type 5, 6, 7 or 8.
LookedUpInBatch ==
  /\ Hovered /\ query # NoQuery
  /\ query.recordType \in { <<"5">>, <<"6">>, <<"7">>, <<"8">> }

\* The nearest of the given lines at or before line k, or -1.
NearestAtOrBefore(js, k) ==
  LET hs == {h \in js : h <= k}
  IN  IF hs = {} THEN 0 - 1 ELSE CHOOSE h \in hs : \A m \in hs : h >= m

\* The trimmed SEC code of the Batch Header at line h; empty for h = -1.
SecCodeOf(h) == IF h < 0 THEN << >> ELSE Trim(Cols(lines[h + 1], 50, 53))

\* C35: for a hover on a record of type 5, 6, 7 or 8 the SEC code passed to
\* getFieldAtPosition is the trimmed SEC code (columns [50,53)) of the
\* nearest Batch Header line at or before the hovered line, and is empty
\* when no Batch Header precedes it.
C35_NearestHeaderSec ==
  LookedUpInBatch =>
    query.secCode = SecCodeOf(NearestAtOrBefore(LinesOfKind("BatchHeader"), cursor.line))

\* The Batch Header lines of at least 53 characters, and the lines that
\* end the search of a hover: those and the File Header lines.
LongHeaders == {h \in LinesOfKind("BatchHeader") : Len(lines[h + 1]) >= 53}

SearchEnds == LongHeaders \cup LinesOfKind("FileHeader")

\* C35, amended: the SEC code passed is the trimmed SEC code of the nearest
\* line at or before the hovered line that is a Batch Header of at least 53
\* characters or a File Header, if that line is a Batch Header; it is
\* empty if that line is a File Header or there is no such line.
C35_NearestLongHeaderSec ==
  LookedUpInBatch =>
    LET h == NearestAtOrBefore(SearchEnds, cursor.line)
    IN  query.secCode = (IF h \in LongHeaders THEN SecCodeOf(h) ELSE << >>)

\* An Entry Detail was hovered two lines after an IAT Batch Header, behind
\* a Batch Header too short to carry a SEC code, and looked up under IAT.
C35_Witness ==
  /\ LookedUpInBatch
  /\ query.recordType = <<"6">> /\ cursor.line = 2
  /\ LineKind(1) = "BatchHeader" /\ Len(lines[2]) < 53
  /\ LineKind(0) = "BatchHeader" /\ Len(lines[1]) >= 53
  /\ query.secCode = <<"I", "A", "T">>

(***************************************************************************)
(* The open batch.                                                         *)
(***************************************************************************)
\* C36: after any prefix of the lines, openBatch is true if and only if
\* the prefix contains a Batch Header or Batch Control and the most recent
\* of them is a Batch Header; no other record kind, blank line or padding
\* line changes openBatch.
C36_OpenBatchTracksBoundary ==
  /\ [](pc \in {"scan", "done", "summarized"} =>
          (openBatch <=> (BoundaryBefore(i) >= 0 /\ LineKind(BoundaryBefore(i)) = "BatchHeader")))
  /\ [][(pc = "scan" /\ i < Len(lines) /\ LineKind(i) \notin {"BatchHeader", "BatchControl"})
          => openBatch' = openBatch]_vars

\* The scan has passed a blank line, a padding line and an entry inside a
\* batch that is still open, after an earlier batch was closed.
C36_Witness ==
  /\ pc = "scan" /\ openBatch
  /\ \E b \in Scanned : LineKind(b) = "BatchControl" /\ b < BoundaryBefore(i)
  /\ \E k \in Scanned :
       k > BoundaryBefore(i) /\ LineKind(k) \in {"Blank", "Padding", "EntryDetail"}

\* The prefix of the input before line k is bracketed: every Entry Detail and
\* Addenda record lies in an open batch, every Batch Control closes an open
\* batch, and no Batch Header appears while a batch is open.
Bracketed(k) ==
  \A m \in 0..(k - 1) :
    /\ LineKind(m) \in {"EntryDetail", "Addenda", "BatchControl"} => OpenBefore(lines, m)
    /\ LineKind(m) = "BatchHeader" => ~OpenBefore(lines, m)

RECURSIVE BigSum(_)
BigSum(hs) ==
  IF Len(hs) = 0 THEN BigZero
  ELSE IF Len(hs) = 1 THEN BigAdd(BigZero, hs[1])
  ELSE LET half == Len(hs) \div 2
       IN  BigAdd(BigSum(SubSeq(hs, 1, half)), BigSum(SubSeq(hs, half + 1, Len(hs))))

\* What the entries of lines first..last contribute, each entry read as the
\* parser reads it.
ContributedIn(first, last) ==
  LET es == EntriesIn(lines, first, last)
  IN  [entryCount |-> CountOf(lines, first, last),
       entryHash |-> BigSum([k \in 1..Len(es) |-> EntryHash(es[k])]),
       debitAmount |-> SeqSum([k \in 1..Len(es) |-> EntryDebit(es[k])]),
       creditAmount |-> SeqSum([k \in 1..Len(es) |-> EntryCredit(es[k])])]

\* The per-batch values of the batch that the Batch Control on line c closes.
BatchValues(c) == ContributedIn(HeaderBefore(lines, c) + 1, c - 1)

ControlsBefore(k) == {c \in 0..(k - 1) : LineKind(c) = "BatchControl"}

\* The sums, over the batches closed before line k, of the per-batch values.
SumOfBatches(k) ==
  LET vs == [n \in 1..k |-> IF LineKind(n - 1) = "BatchControl" THEN BatchValues(n - 1)
                                                               ELSE ContributedIn(0, 0 - 1)]
  IN  [entryCount |-> SeqSum([n \in 1..k |-> vs[n].entryCount]),
       entryHash |-> BigSum([n \in 1..k |-> vs[n].entryHash]),
       debitAmount |-> SeqSum([n \in 1..k |-> vs[n].debitAmount]),
       creditAmount |-> SeqSum([n \in 1..k |-> vs[n].creditAmount])]

\* C37: in an input where every Entry Detail and Addenda record lies between a
\* Batch Header and its Batch Control and batches do not nest, the values a
\* Batch Control is checked against are the contributions of the records of its
\* batch, and the entry/addenda count, debit sum, credit sum and entry hash a
\* File Control is checked against equal the sums of those per-batch values
\* over all the batches that precede it.
C37_FileSumsBatches ==
  (pc = "scan" /\ i < Len(lines) /\ Bracketed(i)) =>
    /\ (LineKind(i) = "BatchControl" /\ OpenBefore(lines, i)) =>
         BatchAccumulator = BatchValues(i)
    /\ (LineKind(i) = "FileControl" /\ ~OpenBefore(lines, i)) =>
         /\ FileAccumulator.entryCount = SumOfBatches(i).entryCount
         /\ FileAccumulator.entryHash = SumOfBatches(i).entryHash
         /\ FileAccumulator.debitAmount = SumOfBatches(i).debitAmount
         /\ FileAccumulator.creditAmount = SumOfBatches(i).creditAmount

C37_Witness ==
  /\ pc = "scan" /\ i < Len(lines) /\ LineKind(i) = "FileControl"
  /\ Bracketed(i) /\ ~OpenBefore(lines, i)
  /\ Cardinality({c \in ControlsBefore(i) : BatchValues(c).entryCount > 0}) >= 2
  /\ totalEntryCount > currentBatchEntryCount
  /\ totalCreditAmount + totalDebitAmount > 0
  /\ totalEntryHash # BigZero

\* C38: every diagnostic returned by parseAch has a non-empty column range,
\* 0 <= start < end, whatever the input: blank lines, lines of length 1 and
\* lines shorter than the field a diagnostic refers to included.
C38_NonEmptyRange ==
  \A d \in 1..Len(diags) : 0 <= diags[d].start /\ diags[d].start < diags[d].end

C38_Witness ==
  /\ Done
  /\ \E d \in 1..Len(diags) :
       diags[d].message = MsgBlank /\ Len(lines[diags[d].line + 1]) = 0
  /\ \E d \in 1..Len(diags) :
       /\ Len(lines[diags[d].line + 1]) = 1
       /\ diags[d].message = MsgShort
  /\ \E d \in 1..Len(diags) :
       /\ Len(lines[diags[d].line + 1]) = 1
       /\ diags[d].start >= Len(lines[diags[d].line + 1])

====
